---- MODULE Spec2Model ----
(***************************************************************************)
(* The request execution pipeline of the two HTTP clients of the           *)
(* repository: the retry controller of ApiClient (executeWithRetry,        *)
(* shouldRetry, calculateRetryDelay), one ApiClient attempt                *)
(* (executeRequest, with its timeout timer and its interceptor chains) and *)
(* the fetch adapter of HttpClient (signal composition, transport call,    *)
(* body reading, status check, cleanup), the promise chain of              *)
(* HttpClient.request with the two InterceptorManager collections, the     *)
(* InterceptorManager of ApiClient with one request running handler by     *)
(* handler, the LockManager of ApiClient with the requests it holds, and   *)
(* dispatchRequest with the request preparation of the fetch adapter.      *)
(*                                                                         *)
(* One behaviour runs one subsystem: Init picks one of them, and the       *)
(* records of the others stay "off".                                       *)
(***************************************************************************)
EXTENDS Integers, Sequences, FiniteSets

VARIABLES
    fn,       \* a pure function of utils / executeWithRetry: its input and result
    api,      \* one logical request of ApiClient (request -> executeWithRetry)
    adapter,  \* one attempt of the fetch adapter of HttpClient
    hc,       \* an HttpClient: its interceptor collections and one request
    ic,       \* an ApiClient: its InterceptorManager and one request, step by step
    lk,       \* an ApiClient: its LockManager and its requests
    dr        \* dispatchRequest and the fetch adapter preparing one config

vars == <<fn, api, adapter, hc, ic, lk, dr>>

----------------------------------------------------------------------------
(* Bounds of the model.                                                    *)

\* retry.attempts ranges over 0..MaxRetryAttempts
MaxRetryAttempts == 2
\* attempt indexes 0..MaxAttemptIndex handed to the delay computation
MaxAttemptIndex == 2
\* calls of use() on the interceptor collections of one client
MaxUses == 3
\* eject() and clear() calls made while one request is in flight
MaxInFlightOperations == 1
\* calls of the request methods of one ApiClient
MaxRequests == 2
\* the dispatches of one config object
MaxDispatches == 2

----------------------------------------------------------------------------
(* JavaScript values.                                                      *)

\* An optional number: <<>> is undefined, <<n>> is the number n.
None == <<>>
Some(n) == <<n>>
IsSet(x) == x # <<>>

\* x || d for an optional number x: 0 and undefined are falsy.
OrDefault(x, d) == IF IsSet(x) /\ x[1] # 0 THEN x[1] ELSE d

Min(a, b) == IF a < b THEN a ELSE b

RECURSIVE Pow(_, _)
\* Math.pow on non-negative integers
Pow(b, e) == IF e = 0 THEN 1 ELSE b * Pow(b, e - 1)

\* Error objects: the class (instanceof TypeError), the name property, the
\* status property (absent on every class but ApiError) and whether the
\* message contains "fetch".
MkError(cls, name, status, msgFetch) ==
    [cls |-> cls, name |-> name, status |-> status, msgFetch |-> msgFetch]

\* new ApiError(`Request failed with status ${status}`, status, ...)
ApiError(status) == MkError("Error", "ApiError", Some(status), FALSE)
\* the TypeError a failing fetch rejects with ("fetch failed", "Failed to fetch")
FetchTypeError == MkError("TypeError", "TypeError", None, TRUE)
\* new NetworkError(`Network error: ${error.message}`, error)
NetworkError(cause) == MkError("Error", "NetworkError", None, cause.msgFetch)
TimeoutError == MkError("Error", "TimeoutError", None, FALSE)
AbortError == MkError("Error", "AbortError", None, FALSE)
ParseError == MkError("Error", "ParseError", None, FALSE)
\* any other Error a collaborator throws
PlainError == MkError("Error", "Error", None, FALSE)
\* a value that is no error, as an onRejected handler may return
PlainValue == MkError("Object", "Value", None, FALSE)

----------------------------------------------------------------------------
(* utils: shouldRetry and calculateRetryDelay; the delay computation of    *)
(* executeWithRetry.                                                       *)

\* retryableStatusCodes: [present |-> BOOLEAN, codes |-> set of statuses]
NoCodes == [present |-> FALSE, codes |-> {}]
CodeList(s) == [present |-> TRUE, codes |-> s]

ShouldRetryNetwork(error) == error.cls = "TypeError" /\ error.msgFetch

ShouldRetryStatus(error, retryableStatusCodes) ==
    /\ IsSet(error.status)
    /\ \/ /\ retryableStatusCodes.present
          /\ error.status[1] \in retryableStatusCodes.codes
       \/ error.status[1] >= 500 /\ error.status[1] < 600

\* A rule that retries no timeout.
ShouldRetryTimeout_Never(error) == FALSE

ShouldRetryTimeout(error) == error.name = "TimeoutError"

shouldRetry(error, retryableStatusCodes) ==
    \/ ShouldRetryNetwork(error)
    \/ ShouldRetryStatus(error, retryableStatusCodes)
    \/ ShouldRetryTimeout(error)

calculateRetryDelay(attempt, baseDelay, backoff, backoffMultiplier, maxDelay) ==
    IF ~backoff
      THEN baseDelay
      ELSE LET delay == baseDelay * Pow(backoffMultiplier, attempt)
           IN  IF IsSet(maxDelay) /\ maxDelay[1] # 0
                 THEN Min(delay, maxDelay[1])
                 ELSE delay

\* retry.delay: undefined, a number, or a function of the attempt index; the
\* functions of the model are attempt |-> k * (attempt + 1).
NoDelay == [kind |-> "undefined", k |-> 0]
FixedDelay(n) == [kind |-> "number", k |-> n]
DelayFn(n) == [kind |-> "function", k |-> n]

DefaultDelay == 1000
DefaultMultiplier == 2

\* const baseDelay = typeof retryConfig.delay === 'function' ? ... : ... || 1000
BaseDelay(retryConfig, attempt) ==
    CASE retryConfig.delay.kind = "function" -> retryConfig.delay.k * (attempt + 1)
      [] retryConfig.delay.kind = "number" ->
            OrDefault(Some(retryConfig.delay.k), DefaultDelay)
      [] OTHER -> DefaultDelay

\* const delay = calculateRetryDelay(attempt, baseDelay, backoff || false,
\*                                   backoffMultiplier || 2, maxDelay)
RetryDelay(retryConfig, attempt) ==
    calculateRetryDelay(attempt,
                        BaseDelay(retryConfig, attempt),
                        retryConfig.backoff,
                        OrDefault(retryConfig.backoffMultiplier, DefaultMultiplier),
                        retryConfig.maxDelay)

----------------------------------------------------------------------------
(* The pure functions, applied to inputs drawn from bounded sets.          *)

Statuses == {200, 404, 429, 500, 503}

ErrorInputs ==
    {ApiError(s) : s \in Statuses \ {200}}
      \cup {FetchTypeError, NetworkError(FetchTypeError), TimeoutError,
            AbortError, ParseError, PlainError}

CodeInputs == {NoCodes, CodeList({}), CodeList({429}), CodeList({404, 503})}

DelayInputs == {NoDelay, FixedDelay(0), FixedDelay(100), FixedDelay(500), DelayFn(100)}
MultiplierInputs == {None, Some(0), Some(1), Some(2), Some(3)}
MaxDelayInputs == {None, Some(0), Some(100), Some(250)}

\* The config merge of the two clients. A config has the keys ConfigKeys; the
\* value of a key is absent (no such key), undefined (the key is there, its
\* value is undefined), a scalar, or an object with the keys HeaderKeys, whose
\* values are "absent", "undefined" or a string.
ConfigKeys == {"timeout", "headers"}
HeaderKeys == {"Accept", "Authorization"}

NoFields == [h \in HeaderKeys |-> "absent"]
Absent == [kind |-> "absent", v |-> "absent", fields |-> NoFields]
Undefined == [kind |-> "undefined", v |-> "undefined", fields |-> NoFields]
Scalar(v) == [kind |-> "scalar", v |-> v, fields |-> NoFields]
Object(fields) == [kind |-> "object", v |-> "object", fields |-> fields]

\* The base config of a client: values from "base".
BaseConfigs ==
    [timeout : {Absent, Scalar("base")},
     headers : {Absent} \cup {Object(f) : f \in [HeaderKeys -> {"absent", "base"}]}]

\* The config of one call: values from "call", and keys given as undefined.
CallConfigs ==
    [timeout : {Absent, Undefined, Scalar("call")},
     headers : {Absent, Undefined}
                 \cup {Object(f) : f \in [HeaderKeys -> {"absent", "undefined", "call"}]}]

\* { ...this.baseConfig, ...args[0] }: every key of the second object, also one
\* whose value is undefined, replaces the key of the first.
Spread(base, call) ==
    [k \in ConfigKeys |-> IF call[k].kind # "absent" THEN call[k] ELSE base[k]]

\* deepMerge on the values of one key of two nested objects: neither is an
\* object, so the source value is taken unless it is undefined.
deepMergeFields(target, source) ==
    [h \in HeaderKeys |->
       IF source[h] \notin {"absent", "undefined"} THEN source[h] ELSE target[h]]

\* deepMerge(target, source)
deepMerge(target, source) ==
    [k \in ConfigKeys |->
       IF source[k].kind \in {"absent", "undefined"}
         THEN target[k]
         ELSE IF source[k].kind = "object" /\ target[k].kind = "object"
                THEN Object(deepMergeFields(target[k].fields, source[k].fields))
                ELSE source[k]]

FnOff == [op |-> "off"]

FnInit ==
    \/ \E e \in ErrorInputs, c \in CodeInputs :
          fn = [op |-> "shouldRetry", error |-> e, retryableStatusCodes |-> c,
                out |-> <<>>]
    \/ \E d \in DelayInputs, b \in BOOLEAN, m \in MultiplierInputs,
          x \in MaxDelayInputs, a \in 0..MaxAttemptIndex :
          fn = [op |-> "retryDelay",
                retryConfig |-> [delay |-> d, backoff |-> b,
                                 backoffMultiplier |-> m, maxDelay |-> x],
                attempt |-> a, out |-> <<>>]
    \/ \E b \in BaseConfigs, c \in CallConfigs, client \in {"HttpClient", "ApiClient"} :
          fn = [op |-> "merge", client |-> client, base |-> b, call |-> c,
                out |-> <<>>]

ApplyShouldRetry ==
    /\ fn.op = "shouldRetry"
    /\ fn.out = <<>>
    /\ fn' = [fn EXCEPT !.out = <<shouldRetry(fn.error, fn.retryableStatusCodes)>>]
    /\ UNCHANGED <<api, adapter, hc, ic, lk, dr>>

ApplyRetryDelay ==
    /\ fn.op = "retryDelay"
    /\ fn.out = <<>>
    /\ fn' = [fn EXCEPT !.out = <<RetryDelay(fn.retryConfig, fn.attempt)>>]
    /\ UNCHANGED <<api, adapter, hc, ic, lk, dr>>

\* HttpClient.request: the final config is the spread of the two configs.
ApplyHttpClientMerge ==
    /\ fn.op = "merge"
    /\ fn.client = "HttpClient"
    /\ fn.out = <<>>
    /\ fn' = [fn EXCEPT !.out = <<Spread(fn.base, fn.call)>>]
    /\ UNCHANGED <<api, adapter, hc, ic, lk, dr>>

\* ApiClient.request: the merged config is deepMerge(this.config, {...config}).
ApplyApiClientMerge ==
    /\ fn.op = "merge"
    /\ fn.client = "ApiClient"
    /\ fn.out = <<>>
    /\ fn' = [fn EXCEPT !.out = <<deepMerge(fn.base, fn.call)>>]
    /\ UNCHANGED <<api, adapter, hc, ic, lk, dr>>

----------------------------------------------------------------------------
(* The fetch adapter: one dispatch attempt of HttpClient.                  *)

DefaultTimeout == 30000

TimeoutInputs == {None, Some(0), Some(5000)}
ResponseTypes == {"json", "text", "stream"}
UrlInputs == {"ok", "missing", "invalid"}

AdapterConfigs ==
    [timeout : TimeoutInputs, signal : BOOLEAN,
     responseType : ResponseTypes, url : UrlInputs]

\* controller.abort() makes the reason an AbortError; controller.abort(reason)
\* and AbortSignal.timeout() make it something else.
AbortReasons == {"AbortError", "other"}

AdapterOff == [pc |-> "off"]

\* The state at the call of adapter(config): nothing armed yet.
AdapterStart(config) ==
    [pc |-> "init", config |-> config,
     signalAborted |-> FALSE,           \* config.signal.aborted
     abortReason |-> "none",            \* the name of config.signal.reason
     failure |-> "none",                \* why fetch rejected: abort | network
     signalListeners |-> {},            \* abort listeners on config.signal
     timeoutId |-> FALSE,               \* the variable timeoutId holds an id
     timerPending |-> FALSE,            \* the host still holds the timer
     timersCreated |-> 0,               \* calls of setTimeout
     timeoutController |-> FALSE,
     timeoutSignalAborted |-> FALSE,    \* timeoutController.signal.aborted
     timeoutSignalListeners |-> {},     \* abort listeners on timeoutController.signal
     isTimeoutAborted |-> FALSE,
     timeoutAbortHandler |-> FALSE,     \* the variable holds the handler
     userAbortHandler |-> FALSE,
     finalSignal |-> "none",            \* none | user | timeout | combined
     combinedAborted |-> FALSE,         \* combinedController.signal.aborted
     abortCalls |-> 0,                  \* calls of combinedController.abort()
     fetchCalled |-> FALSE,
     status |-> None,                   \* the status of the response received
     firstFired |-> "none",             \* the source that fired first in flight
     result |-> "pending"]

AdapterInit == \E c \in AdapterConfigs : adapter = AdapterStart(c)

\* A timeout that takes an absent field for 0.
Timeout_AbsentIsZero(config) == IF IsSet(config.timeout) THEN config.timeout[1] ELSE 0

\* const timeout = config.timeout ?? 30000
Timeout(config) == IF IsSet(config.timeout) THEN config.timeout[1] ELSE DefaultTimeout

\* The signal handed to fetch, aborted or not.
FinalSignalAborted(a) ==
    CASE a.finalSignal = "combined" -> a.combinedAborted
      [] a.finalSignal = "timeout" -> a.timeoutSignalAborted
      [] a.finalSignal = "user" -> a.signalAborted
      [] OTHER -> FALSE

handleAbortError(a) == IF a.isTimeoutAborted THEN "ERR_TIMEDOUT" ELSE "ERR_CANCELED"

\* The name of the exception that fetch or the body read rejects with once the
\* signal it was handed is aborted: the reason of that signal. The adapter's
\* own controllers are aborted without a reason.
AbortException(a) ==
    IF a.finalSignal = "user" THEN a.abortReason ELSE "AbortError"

\* The catch block around fetch.
FetchCatch(a, name) ==
    IF name = "AbortError" THEN handleAbortError(a) ELSE "ERR_NETWORK"

\* The catch blocks around the body read: the "json" case catches every
\* failure of its read and parse itself.
BodyCatch(a, name) ==
    IF a.config.responseType = "json"
      THEN "ERR_BAD_RESPONSE"
      ELSE IF name = "AbortError" THEN handleAbortError(a) ELSE "ERR_BAD_RESPONSE"

\* timeoutAbortHandler, the listener on timeoutController.signal
TimeoutAbortHandler(a) ==
    LET drop == a.userAbortHandler /\ a.config.signal
    IN  [a EXCEPT !.isTimeoutAborted = TRUE,
                  !.signalListeners = IF drop THEN @ \ {"userAbortHandler"} ELSE @,
                  !.userAbortHandler = IF drop THEN FALSE ELSE @,
                  !.combinedAborted = TRUE,
                  !.abortCalls = @ + 1]

\* A handler of the caller's abort that leaves the timer and the other
\* handler in place.
UserAbortHandler_LeavesTimer(a) ==
    [a EXCEPT !.combinedAborted = TRUE,
              !.abortCalls = @ + 1]

\* userAbortHandler, the listener on config.signal
UserAbortHandler(a) ==
    LET drop == a.timeoutAbortHandler /\ a.timeoutController
    IN  [a EXCEPT !.timerPending = IF a.timeoutId THEN FALSE ELSE @,
                  !.timeoutId = FALSE,
                  !.timeoutSignalListeners =
                      IF drop THEN @ \ {"timeoutAbortHandler"} ELSE @,
                  !.timeoutAbortHandler = IF drop THEN FALSE ELSE @,
                  !.combinedAborted = TRUE,
                  !.abortCalls = @ + 1]

\* The callback of setTimeout: isTimeoutAborted = true; timeoutController.abort(),
\* which runs the listeners of the timeout signal.
TimerCallback(a) ==
    LET b == [a EXCEPT !.timerPending = FALSE,
                       !.isTimeoutAborted = TRUE,
                       !.timeoutSignalAborted = TRUE]
    IN  IF "timeoutAbortHandler" \in b.timeoutSignalListeners
          THEN TimeoutAbortHandler(b)
          ELSE b

\* Signal composition: the timer and the two listeners.
ComposeSignals(a) ==
    IF Timeout(a.config) > 0
      THEN LET t == [a EXCEPT !.timeoutController = TRUE,
                              !.timeoutId = TRUE,
                              !.timerPending = TRUE,
                              !.timersCreated = @ + 1]
           IN  IF a.config.signal
                 THEN [t EXCEPT !.timeoutAbortHandler = TRUE,
                                !.timeoutSignalListeners = @ \cup {"timeoutAbortHandler"},
                                !.userAbortHandler = TRUE,
                                !.signalListeners = @ \cup {"userAbortHandler"},
                                !.finalSignal = "combined"]
                 ELSE [t EXCEPT !.finalSignal = "timeout"]
      ELSE IF a.config.signal
             THEN [a EXCEPT !.finalSignal = "user"]
             ELSE a

Cleanup_KeepsUserListener(a) ==
    [a EXCEPT !.timerPending = IF a.timeoutId THEN FALSE ELSE @,
              !.timeoutSignalListeners =
                  IF a.timeoutAbortHandler /\ a.timeoutController
                    THEN @ \ {"timeoutAbortHandler"} ELSE @]

\* The finally block.
Cleanup(a) ==
    [a EXCEPT !.timerPending = IF a.timeoutId THEN FALSE ELSE @,
              !.timeoutSignalListeners =
                  IF a.timeoutAbortHandler /\ a.timeoutController
                    THEN @ \ {"timeoutAbortHandler"} ELSE @,
              !.signalListeners =
                  IF a.userAbortHandler /\ a.config.signal
                    THEN @ \ {"userAbortHandler"} ELSE @]

\* An exit from inside the try block: the finally block runs.
Finish(a, result) == [Cleanup(a) EXCEPT !.pc = "done", !.result = result]

\* An exit before the try block.
Throw(a, result) == [a EXCEPT !.pc = "done", !.result = result]

\* if (!response.ok) ... : response.ok is status in 200..299
StatusCheck(status) ==
    IF status >= 200 /\ status <= 299
      THEN "ok"
      ELSE IF status >= 400 /\ status < 500
             THEN "ERR_BAD_REQUEST"
             ELSE "ERR_BAD_RESPONSE"

\* A check that never finds the signal aborted.
AlreadyCanceled_Never(a) == FALSE

\* if (config.signal && config.signal.aborted)
AlreadyCanceled(a) == a.config.signal /\ a.signalAborted

\* adapter(config) up to the call of fetch.
AdapterBegin ==
    /\ adapter.pc = "init"
    /\ adapter' =
         IF AlreadyCanceled(adapter)
           THEN Throw(adapter, "ERR_CANCELED")
           ELSE IF adapter.config.url = "missing"
             THEN Throw(adapter, "ERR_BAD_CONFIG_VALUE")
           ELSE IF adapter.config.url = "invalid"
             THEN Throw(adapter, "ERR_INVALID_URL")
           ELSE [ComposeSignals(adapter) EXCEPT !.pc = "fetch", !.fetchCalled = TRUE]
    /\ UNCHANGED <<fn, api, hc, ic, lk, dr>>

\* The host runs the timer's callback.
AdapterTimerFires ==
    /\ adapter.pc \in {"fetch", "body"}
    /\ adapter.timerPending
    /\ adapter' = [TimerCallback(adapter) EXCEPT
                     !.firstFired = IF @ = "none" THEN "timer" ELSE @]
    /\ UNCHANGED <<fn, api, hc, ic, lk, dr>>

\* The caller aborts its signal: before, during or after the attempt.
AdapterUserAborts ==
    /\ adapter.pc \in {"init", "fetch", "body", "done"}
    /\ adapter.config.signal
    /\ ~adapter.signalAborted
    /\ \E reason \in AbortReasons :
         LET b == [adapter EXCEPT
                     !.signalAborted = TRUE,
                     !.abortReason = reason,
                     !.firstFired = IF @ = "none" /\ adapter.pc \in {"fetch", "body"}
                                      THEN "user" ELSE @]
         IN  adapter' = IF "userAbortHandler" \in b.signalListeners
                          THEN UserAbortHandler(b)
                          ELSE b
    /\ UNCHANGED <<fn, api, hc, ic, lk, dr>>

\* await fetch(requestUrl, nextFetchOptions) settles: rejected with the reason
\* of the signal it was handed once that is aborted, otherwise a network failure
\* (a TypeError) or a response. A "stream" response is not read: the status check follows at once.
AdapterFetchSettles ==
    /\ adapter.pc = "fetch"
    /\ IF FinalSignalAborted(adapter)
         THEN adapter' = Finish([adapter EXCEPT !.failure = "abort"],
                                FetchCatch(adapter, AbortException(adapter)))
         ELSE \/ adapter' = Finish([adapter EXCEPT !.failure = "network"],
                                   FetchCatch(adapter, "TypeError"))
              \/ \E s \in Statuses :
                   adapter' =
                     IF adapter.config.responseType = "stream"
                       THEN Finish([adapter EXCEPT !.status = Some(s)], StatusCheck(s))
                       ELSE [adapter EXCEPT !.pc = "body", !.status = Some(s)]
    /\ UNCHANGED <<fn, api, hc, ic, lk, dr>>

\* The body read (await response.text()) and the parse settle. An abort of the
\* signal rejects the read with the signal's reason; otherwise the read or the
\* parse fails, or the status check follows.
AdapterBodySettles ==
    /\ adapter.pc = "body"
    /\ IF FinalSignalAborted(adapter)
         THEN adapter' = Finish(adapter, BodyCatch(adapter, AbortException(adapter)))
         ELSE \/ adapter' = Finish(adapter, BodyCatch(adapter, "SyntaxError"))
              \/ adapter' = Finish(adapter, StatusCheck(adapter.status[1]))
    /\ UNCHANGED <<fn, api, hc, ic, lk, dr>>

AdapterNext ==
    \/ AdapterBegin
    \/ AdapterTimerFires
    \/ AdapterUserAborts
    \/ AdapterFetchSettles
    \/ AdapterBodySettles

----------------------------------------------------------------------------
(* ApiClient: the interceptor chains of its InterceptorManager.            *)

\* A response interceptor entry {id, onFulfilled, onRejected}. onFulfilled is
\* present or not; onRejected is undefined ("none") or a handler that returns
\* the error it was given ("pass"), returns a value that is no error
\* ("recover"), or throws the error it was given ("throw").
Entry(id, onFulfilled, onRejected) ==
    [id |-> id, onFulfilled |-> onFulfilled, onRejected |-> onRejected]

Event(ev, n) == [ev |-> ev, n |-> n]

RECURSIVE ResponseChainFrom(_, _, _)
ResponseChainFrom(entries, i, log) ==
    IF i > Len(entries)
      THEN log
      ELSE ResponseChainFrom(entries, i + 1,
             IF entries[i].onFulfilled
               THEN Append(log, Event("onFulfilled", entries[i].id))
               ELSE log)

\* executeResponseInterceptors: the calls of onFulfilled, in order
executeResponseInterceptors(entries) == ResponseChainFrom(entries, 1, <<>>)

RECURSIVE ErrorChainFrom(_, _, _, _)
ErrorChainFrom(entries, i, result, log) ==
    IF i = 0
      THEN [threw |-> FALSE, val |-> result, log |-> log]
      ELSE IF entries[i].onRejected = "none"
        THEN ErrorChainFrom(entries, i - 1, result, log)
        ELSE LET called == Append(log, Event("onRejected", entries[i].id))
             IN  CASE entries[i].onRejected = "throw" ->
                        [threw |-> TRUE, val |-> result, log |-> called]
                   [] entries[i].onRejected = "recover" ->
                        ErrorChainFrom(entries, i - 1, PlainValue, called)
                   [] OTHER ->
                        ErrorChainFrom(entries, i - 1, result, called)

\* executeErrorInterceptors: the loop from the last entry to the first. The
\* result is what the loop returns, or what a handler threw out of it.
executeErrorInterceptors(entries, error) ==
    ErrorChainFrom(entries, Len(entries), error, <<>>)

----------------------------------------------------------------------------
(* ApiClient.executeRequest, from the moment the transport settles.        *)

IsError(v) == v.cls \in {"Error", "TypeError"}

Thrown(val, log) == [ok |-> FALSE, val |-> val, log |-> log]

\* The catch block of executeRequest, entered with `error`.
CatchBlock(entries, error, signalAborted, log) ==
    IF IsError(error) /\ error.name = "AbortError"
      THEN IF signalAborted
             THEN Thrown(TimeoutError, log)
             ELSE Thrown(AbortError, log)
      ELSE LET r == executeErrorInterceptors(entries,
                      IF error.cls = "TypeError" /\ error.msgFetch
                        THEN NetworkError(error)
                        ELSE error)
           IN  Thrown(r.val, log \o r.log)

\* The try block after a response arrived: the response interceptors, the
\* status check (parseError, the error interceptors, throw) and the parser.
AfterResponse(entries, status, bodyOk, signalAborted) ==
    LET log == executeResponseInterceptors(entries)
    IN  IF ~(status >= 200 /\ status <= 299)
          THEN LET r == executeErrorInterceptors(entries, ApiError(status))
               IN  CatchBlock(entries, r.val, signalAborted, log \o r.log)
          ELSE IF bodyOk
            THEN [ok |-> TRUE, val |-> PlainValue, log |-> log]
            ELSE CatchBlock(entries, ParseError, signalAborted, log)

\* What one attempt makes of what the transport did: a response with a status
\* and a body the parser accepts or not, or a rejection with an error.
Response(status, bodyOk) == [kind |-> "response", status |-> status, bodyOk |-> bodyOk]
Rejection(error) == [kind |-> "rejection", error |-> error]

AfterTransport(entries, t, signalAborted) ==
    IF t.kind = "response"
      THEN AfterResponse(entries, t.status, t.bodyOk, signalAborted)
      ELSE CatchBlock(entries, t.error, signalAborted, <<>>)

----------------------------------------------------------------------------
(* ApiClient.request and executeWithRetry.                                 *)

ApiStatuses == {200, 404, 503}

\* retry.retryCondition: undefined, or a predicate that accepts every error,
\* or one that accepts none.
RetryConditions == {"none", "true", "false"}

RetryConfigs ==
    [attempts : 0..MaxRetryAttempts,
     retryCondition : RetryConditions,
     retryableStatusCodes : {NoCodes, CodeList({404})},
     delay : {FixedDelay(100)},
     backoff : BOOLEAN,
     backoffMultiplier : {Some(2)},
     maxDelay : {None}]

InterceptorSetups ==
    { <<>>,
      <<Entry(0, TRUE, "pass")>>,
      <<Entry(0, TRUE, "none"), Entry(1, FALSE, "recover")>>,
      <<Entry(0, FALSE, "throw"), Entry(1, TRUE, "pass")>> }

ApiConfigs ==
    [retry : RetryConfigs,
     timeout : {None, Some(0), Some(5000)},
     useXHR : BOOLEAN,
     responseInterceptors : InterceptorSetups]

ApiOff == [pc |-> "off"]

ApiStart(config) ==
    [pc |-> "init", config |-> config,
     attempt |-> 0,              \* the loop variable of executeWithRetry
     chainRuns |-> 0,            \* calls of executeRequestInterceptors
     dispatched |-> <<>>,        \* per attempt: the chain run whose config,
                                 \* URL and headers executeRequest was given
     timerPending |-> FALSE,     \* the timer of createTimeoutPromise is pending
     signalAborted |-> FALSE,    \* abortController.signal.aborted, this attempt
     transport |-> <<>>,         \* what the transport did in each attempt
     errors |-> <<>>,            \* what each failed attempt threw
     delays |-> <<>>,            \* the delays waited between attempts
     log |-> <<>>,               \* dispatches, handler calls and delays, in order
     settled |-> "pending",      \* pending | resolved | rejected
     value |-> <<>>]             \* <<v>>: the value resolved or rejected with

ApiInit == \E c \in ApiConfigs : api = ApiStart(c)

\* const maxAttempts = (retryConfig.attempts || 0) + 1
MaxAttempts(retryConfig) == retryConfig.attempts + 1

AttemptsRemain_UpToLast(attempt, retryConfig) == attempt < MaxAttempts(retryConfig)

\* if (attempt < maxAttempts - 1)
AttemptsRemain(attempt, retryConfig) == attempt < MaxAttempts(retryConfig) - 1

\* A retry decision by the default rules alone.
ShouldRetryRequest_DefaultRules(retryConfig, error) ==
    shouldRetry(error, retryConfig.retryableStatusCodes)

\* retryCondition ? retryCondition(error) : shouldRetry(error, retryableStatusCodes)
ShouldRetryRequest(retryConfig, error) ==
    CASE retryConfig.retryCondition = "true" -> TRUE
      [] retryConfig.retryCondition = "false" -> FALSE
      [] OTHER -> shouldRetry(error, retryConfig.retryableStatusCodes)

\* A timer for every fetch attempt, whatever the timeout.
ArmsTimer_Always(config) == ~config.useXHR

\* if (config.timeout && !useXHR)
ArmsTimer(config) == OrDefault(config.timeout, 0) # 0 /\ ~config.useXHR

\* The cancellation signal the transport is called with: fetchOptions.signal is
\* abortController.signal in every fetch call; executeWithXHR gets no signal.
TransportSignal(config) == IF config.useXHR THEN "none" ELSE "abortController"

\* requestConfig = await executeRequestInterceptors(requestConfig); the
\* headers and the URL are built from what the chain returned.
RunRequestInterceptors(a) ==
    [a EXCEPT !.chainRuns = @ + 1,
              !.log = Append(@, Event("requestInterceptors", a.chainRuns + 1))]

\* A loop that runs the request interceptors again before every attempt after
\* the first.
LoopHead_RerunsChain(a) ==
    IF a.attempt < MaxAttempts(a.config.retry)
      THEN LET b == IF a.attempt > 0 THEN RunRequestInterceptors(a) ELSE a
           IN  [b EXCEPT !.pc = "fetch",
                         !.timerPending = ArmsTimer(a.config),
                         !.signalAborted = FALSE,
                         !.dispatched = Append(@, b.chainRuns),
                         !.log = Append(@, Event("dispatch", a.attempt))]
      ELSE [a EXCEPT !.pc = "done",
                     !.settled = "rejected",
                     !.value = IF a.errors = <<>> THEN <<>>
                               ELSE <<a.errors[Len(a.errors)]>>]

\* A loop that ends with the error of the first attempt.
LoopHead_FirstError(a) ==
    IF a.attempt < MaxAttempts(a.config.retry)
      THEN [a EXCEPT !.pc = "fetch",
                     !.timerPending = ArmsTimer(a.config),
                     !.signalAborted = FALSE,
                     !.dispatched = Append(@, a.chainRuns),
                     !.log = Append(@, Event("dispatch", a.attempt))]
      ELSE [a EXCEPT !.pc = "done",
                     !.settled = "rejected",
                     !.value = IF a.errors = <<>> THEN <<>> ELSE <<a.errors[1]>>]

\* The head of the for loop: the next attempt starts (executeRequest up to the
\* call of the transport), or the loop is over and lastError is thrown.
LoopHead(a) ==
    IF a.attempt < MaxAttempts(a.config.retry)
      THEN [a EXCEPT !.pc = "fetch",
                     !.timerPending = ArmsTimer(a.config),
                     !.signalAborted = FALSE,
                     !.dispatched = Append(@, a.chainRuns),
                     !.log = Append(@, Event("dispatch", a.attempt))]
      ELSE [a EXCEPT !.pc = "done",
                     !.settled = "rejected",
                     !.value = IF a.errors = <<>> THEN <<>>
                               ELSE <<a.errors[Len(a.errors)]>>]

\* The catch block of executeWithRetry, entered with what the attempt threw.
RetryCatch(a, error) ==
    LET b == [a EXCEPT !.errors = Append(@, error)]
    IN  IF AttemptsRemain(b.attempt, b.config.retry)
          THEN IF ~ShouldRetryRequest(b.config.retry, error)
                 THEN [b EXCEPT !.pc = "done", !.settled = "rejected",
                                !.value = <<error>>]
                 ELSE LET delay == RetryDelay(b.config.retry, b.attempt)
                      IN  [b EXCEPT !.pc = "delay",
                                    !.delays = Append(@, delay),
                                    !.log = Append(@, Event("delay", delay))]
          ELSE LoopHead([b EXCEPT !.attempt = @ + 1])

\* request(): the request interceptors run, executeWithRetry is entered and
\* the first attempt starts.
ApiRequest ==
    /\ api.pc = "init"
    /\ api' = LoopHead(RunRequestInterceptors(api))
    /\ UNCHANGED <<fn, adapter, hc, ic, lk, dr>>

\* The timer of createTimeoutPromise fires: the promise rejects and its
\* catch handler aborts abortController.
ApiTimerFires ==
    /\ api.pc = "fetch"
    /\ api.timerPending
    /\ api' = [api EXCEPT !.timerPending = FALSE, !.signalAborted = TRUE]
    /\ UNCHANGED <<fn, adapter, hc, ic, lk, dr>>

\* What the transport of this attempt may do.
TransportOutcomes(a) ==
    IF a.signalAborted
      THEN {Rejection(AbortError)}
      ELSE {Response(s, TRUE) : s \in ApiStatuses}
             \cup {Response(200, FALSE)}
             \cup (IF a.config.useXHR
                     THEN {Rejection(MkError("TypeError", "TypeError", None, FALSE))}
                            \cup (IF OrDefault(a.config.timeout, 0) # 0
                                    THEN {Rejection(TimeoutError)} ELSE {})
                     ELSE {Rejection(FetchTypeError), Rejection(AbortError)})

\* The transport settles; the rest of executeRequest runs (timeoutCleanup, the
\* chains, the parser, the catch block), then the catch block of
\* executeWithRetry.
ApiTransportSettles ==
    /\ api.pc = "fetch"
    /\ \E t \in TransportOutcomes(api) :
         LET r == AfterTransport(api.config.responseInterceptors, t, api.signalAborted)
             b == [api EXCEPT !.timerPending = FALSE,
                              !.transport = Append(@, t),
                              !.log = @ \o r.log]
         IN  api' = IF r.ok
                      THEN [b EXCEPT !.pc = "done", !.settled = "resolved",
                                     !.value = <<r.val>>]
                      ELSE RetryCatch(b, r.val)
    /\ UNCHANGED <<fn, adapter, hc, ic, lk, dr>>

\* await new Promise((resolve) => setTimeout(resolve, delay)) is over.
ApiDelayElapses ==
    /\ api.pc = "delay"
    /\ api' = LoopHead([api EXCEPT !.attempt = @ + 1])
    /\ UNCHANGED <<fn, adapter, hc, ic, lk, dr>>

ApiNext ==
    \/ ApiRequest
    \/ ApiTimerFires
    \/ ApiTransportSettles
    \/ ApiDelayElapses

----------------------------------------------------------------------------
(* HttpClient: the two InterceptorManager collections and request().       *)

\* The handlers a caller hands to interceptors.request.use: onFulfilled
\* returns a request config made from the one it was given ("ok"), throws
\* ("throw") or returns a value that is no request config ("bad"); onRejected
\* is undefined ("none") or returns an error made from the one it was given
\* ("wrap"); runWhen is undefined ("none") or a predicate that returns true or
\* false.
Interceptor(onFulfilled, onRejected, runWhen) ==
    [onFulfilled |-> onFulfilled, onRejected |-> onRejected, runWhen |-> runWhen]

\* the null that eject leaves in the slot
NullInterceptor == Interceptor("null", "null", "null")

RequestInterceptorInputs ==
    { Interceptor("ok", "none", "none"),
      Interceptor("ok", "wrap", "true"),
      Interceptor("ok", "none", "false"),
      Interceptor("throw", "none", "true"),
      Interceptor("bad", "none", "true") }

\* interceptors.response.use(onFulfilled, onRejected); onFulfilled may be
\* undefined ("none")
ResponseInterceptorInputs ==
    { Interceptor("ok", "none", "none"),
      Interceptor("ok", "wrap", "none"),
      Interceptor("none", "wrap", "none") }

Collections == {"request", "response"}

InterceptorInputs(coll) ==
    IF coll = "request" THEN RequestInterceptorInputs ELSE ResponseInterceptorInputs

\* A handler of a collection, named in the values it produces.
Tag(coll, id) == <<coll, id>>

\* What a promise of the chain is settled with: a request config, a response
\* config, another value or an error, and the handlers that made it, in order.
Settled(state, kind, by) == [state |-> state, kind |-> kind, by |-> by]

\* A call of a handler (or of dispatchRequest), with the value it was given and
\* what it did: returned a value of a kind, or threw. An eject or clear that
\* happened while the request was in flight is recorded between the calls.
Call(coll, handler, id, input, out) ==
    [coll |-> coll, handler |-> handler, id |-> id, input |-> input, out |-> out]

HcOff == [pc |-> "off"]

\* new HttpClient(): two empty collections
HcStart ==
    [pc |-> "idle",
     interceptors |-> [request |-> <<>>, response |-> <<>>],
     uses |-> 0,
     issued |-> [request |-> <<>>, response |-> <<>>],
     chain |-> <<>>,
     pos |-> 0,
     promise |-> Settled("pending", "none", <<>>),
     log |-> <<>>,
     operations |-> 0]

HcInit == hc = HcStart

\* InterceptorManager.use: push, and return the index of the new entry
use(interceptors, interceptor) ==
    [interceptors |-> Append(interceptors, interceptor),
     id |-> Len(Append(interceptors, interceptor)) - 1]

\* InterceptorManager.eject: null the slot if it holds an interceptor. Ids are
\* array indexes (from 0); the sequence is indexed from 1.
eject(interceptors, id) ==
    IF id + 1 \in DOMAIN interceptors /\ interceptors[id + 1] # NullInterceptor
      THEN [interceptors EXCEPT ![id + 1] = NullInterceptor]
      ELSE interceptors

\* InterceptorManager.clear
clear(interceptors) == <<>>

\* One stage of the promise chain that request() builds.
Stage(stage, id, interceptor) ==
    [stage |-> stage, id |-> id, interceptor |-> interceptor]

\* A chain built from the last entry of a collection to the first
RECURSIVE StagesFrom_LastFirst(_, _, _)
StagesFrom_LastFirst(coll, interceptors, i) ==
    IF i > Len(interceptors)
      THEN <<>>
      ELSE StagesFrom_LastFirst(coll, interceptors, i + 1)
           \o (IF interceptors[i] = NullInterceptor \/ interceptors[i].onFulfilled = "none"
                 THEN <<>>
                 ELSE <<Stage(coll, i - 1, interceptors[i])>>)

\* interceptors.forEach(...) in request(): one promise.then per entry that is
\* not null and has an onFulfilled
RECURSIVE StagesFrom(_, _, _)
StagesFrom(coll, interceptors, i) ==
    IF i > Len(interceptors)
      THEN <<>>
      ELSE (IF interceptors[i] = NullInterceptor \/ interceptors[i].onFulfilled = "none"
              THEN <<>>
              ELSE <<Stage(coll, i - 1, interceptors[i])>>)
           \o StagesFrom(coll, interceptors, i + 1)

\* The chain of request(): request interceptors, dispatchRequest, response
\* interceptors, the final check.
BuildChain(interceptors) ==
    StagesFrom("request", interceptors.request, 1)
    \o <<Stage("dispatch", 0, NullInterceptor)>>
    \o StagesFrom("response", interceptors.response, 1)
    \o <<Stage("final", 0, NullInterceptor)>>

BadConfig == Settled("rejected", "error", <<>>)

\* The rejection callback of a stage: throw onRejected ? onRejected(error) : error
OnRejectedStage(s, p) ==
    IF s.interceptor.onRejected = "wrap"
      THEN [promise |-> Settled("rejected", "error", Append(p.by, Tag(s.stage, s.id))),
            log |-> <<Call(s.stage, "onRejected", s.id, p.by, "error")>>]
      ELSE [promise |-> p, log |-> <<>>]

\* What a call of onFulfilled settles the stage with.
OnFulfilledCall(s, p, kind) ==
    LET tag == Tag(s.stage, s.id)
        f == s.interceptor.onFulfilled
    IN  CASE f = "ok" ->
               [promise |-> Settled("fulfilled", kind, Append(p.by, tag)),
                log |-> <<Call(s.stage, "onFulfilled", s.id, p.by, kind)>>]
          [] f = "bad" ->
               [promise |-> Settled("fulfilled", "other", Append(p.by, tag)),
                log |-> <<Call(s.stage, "onFulfilled", s.id, p.by, "other")>>]
          [] OTHER ->
               [promise |-> Settled("rejected", "error", <<tag>>),
                log |-> <<Call(s.stage, "onFulfilled", s.id, p.by, "throw")>>]

\* The stage of a request interceptor, entered with the settled promise p.
RequestStage(s, p) ==
    IF p.state = "rejected"
      THEN OnRejectedStage(s, p)
      ELSE IF p.kind # "config"
        THEN [promise |-> BadConfig, log |-> <<>>]
        ELSE IF s.interceptor.runWhen = "none" \/ s.interceptor.runWhen = "false"
          THEN [promise |-> p, log |-> <<>>]
          ELSE OnFulfilledCall(s, p, "config")

\* The stage of a response interceptor.
ResponseStage(s, p) ==
    IF p.state = "rejected"
      THEN OnRejectedStage(s, p)
      ELSE IF p.kind # "response"
        THEN [promise |-> BadConfig, log |-> <<>>]
        ELSE OnFulfilledCall(s, p, "response")

\* The stage of dispatchRequest: it has no rejection callback. The transport
\* answers with a response or fails.
DispatchStage(p) ==
    IF p.state = "rejected"
      THEN {[promise |-> p, log |-> <<>>]}
      ELSE IF p.kind # "config"
        THEN {[promise |-> BadConfig, log |-> <<>>]}
        ELSE {[promise |-> Settled("fulfilled", "response", <<>>),
               log |-> <<Call("dispatch", "dispatchRequest", 0, p.by, "response")>>],
              [promise |-> Settled("rejected", "error", <<>>),
               log |-> <<Call("dispatch", "dispatchRequest", 0, p.by, "throw")>>]}

\* The last then of request(): the response config, or ERR_BAD_CONFIG
FinalStage(p) ==
    IF p.state = "fulfilled" /\ p.kind # "response"
      THEN [promise |-> BadConfig, log |-> <<>>]
      ELSE [promise |-> p, log |-> <<>>]

StageOutcomes(s, p) ==
    CASE s.stage = "request" -> {RequestStage(s, p)}
      [] s.stage = "response" -> {ResponseStage(s, p)}
      [] s.stage = "dispatch" -> DispatchStage(p)
      [] OTHER -> {FinalStage(p)}

\* An operation on a collection while a request is in flight is recorded in
\* the log of that request.
Operation(h, coll, op, id) ==
    IF h.pc = "run"
      THEN [h EXCEPT !.log = Append(@, Call(coll, op, id, <<>>, "none")),
                     !.operations = @ + 1]
      ELSE h

\* Operations are made before the request, and up to MaxInFlightOperations
\* of them while it is in flight.
MayOperate(h) ==
    \/ h.pc = "idle"
    \/ h.pc \notin {"off", "done"} /\ h.operations < MaxInFlightOperations

\* interceptors.<coll>.use(...)
HcUse ==
    /\ hc.pc = "idle"
    /\ hc.uses < MaxUses
    /\ \E coll \in Collections : \E i \in InterceptorInputs(coll) :
         LET u == use(hc.interceptors[coll], i)
         IN  hc' = [hc EXCEPT !.interceptors[coll] = u.interceptors,
                              !.issued[coll] = Append(@, u.id),
                              !.uses = @ + 1]
    /\ UNCHANGED <<fn, api, adapter, ic, lk, dr>>

\* interceptors.<coll>.eject(id), with the id of a slot of the collection
HcEject ==
    /\ MayOperate(hc)
    /\ \E coll \in Collections : \E id \in 0 .. MaxUses - 1 :
         /\ id < Len(hc.interceptors[coll])
         /\ hc.interceptors[coll][id + 1] # NullInterceptor
         /\ hc' = [Operation(hc, coll, "eject", id)
                     EXCEPT !.interceptors[coll] = eject(@, id)]
    /\ UNCHANGED <<fn, api, adapter, ic, lk, dr>>

\* interceptors.<coll>.clear()
HcClear ==
    /\ MayOperate(hc)
    /\ \E coll \in Collections :
         /\ hc.interceptors[coll] # <<>>
         /\ hc' = [Operation(hc, coll, "clear", 0)
                     EXCEPT !.interceptors[coll] = clear(@)]
    /\ UNCHANGED <<fn, api, adapter, ic, lk, dr>>

\* request(config): the chain is built synchronously from the collections as
\* they are, on Promise.resolve(finalConfig)
HcRequest ==
    /\ hc.pc = "idle"
    /\ hc' = [hc EXCEPT !.pc = "run",
                        !.chain = BuildChain(hc.interceptors),
                        !.pos = 1,
                        !.promise = Settled("fulfilled", "config", <<>>)]
    /\ UNCHANGED <<fn, api, adapter, ic, lk, dr>>

\* The next callback of the chain runs.
HcStep ==
    /\ hc.pc = "run"
    /\ \E o \in StageOutcomes(hc.chain[hc.pos], hc.promise) :
         hc' = [hc EXCEPT !.promise = o.promise,
                          !.log = @ \o o.log,
                          !.pos = @ + 1,
                          !.pc = IF hc.pos = Len(hc.chain) THEN "done" ELSE "run"]
    /\ UNCHANGED <<fn, api, adapter, ic, lk, dr>>

HcNext ==
    \/ HcUse
    \/ HcEject
    \/ HcClear
    \/ HcRequest
    \/ HcStep

----------------------------------------------------------------------------
(* ApiClient: the InterceptorManager and one request, handler by handler.  *)
(* A request without retry configuration: executeWithRetry makes one       *)
(* attempt.                                                                *)

\* A request interceptor returns a config made from the value it was given
\* ("ok"), throws ("throw") or returns a value that is no RequestConfig and is
\* neither null nor undefined ("bad").
RequestInterceptorKinds == {"ok", "throw", "bad"}

RequestEntry(id, interceptor) == [id |-> id, interceptor |-> interceptor]

\* The (onFulfilled, onRejected) pairs handed to interceptors.response.use;
\* an onRejected "wrap" returns an error made from the one it was given.
ResponseHandlerInputs == {<<TRUE, "none">>, <<TRUE, "wrap">>, <<FALSE, "wrap">>}

\* No for...of loop is running.
NoIterator == [coll |-> "none", live |-> FALSE, arr |-> <<>>, next |-> 0]

\* for (const ... of this.<coll>Interceptors): the iterator holds the array
\* object that the field named when the loop began, and the index of the
\* element it hands out next. `live` says that the field still names that
\* array; clear<Coll>Interceptors assigns a new array to the field.
Iterator(coll) == [coll |-> coll, live |-> TRUE, arr |-> <<>>, next |-> 1]

IteratedArray(c) ==
    IF c.iter.live THEN c.interceptors[c.iter.coll] ELSE c.iter.arr

IcOff == [pc |-> "off"]

\* new ApiClient(config)
IcStart ==
    [pc |-> "idle",
     interceptors |-> [request |-> <<>>, response |-> <<>>],
     idCounter |-> [request |-> 0, response |-> 0],
     uses |-> 0,
     iter |-> NoIterator,
     i |-> 0,
     inTry |-> FALSE,
     ok |-> FALSE,
     result |-> Settled("pending", "none", <<>>),
     log |-> <<>>,
     operations |-> 0,
     settled |-> "pending"]

IcInit == ic = IcStart

\* addRequestInterceptor / addResponseInterceptor
addInterceptor(c, coll, entry) ==
    [c EXCEPT !.interceptors[coll] = Append(@, entry),
              !.idCounter[coll] = @ + 1]

\* findIndex((entry) => entry.id === id): 0 stands for -1
RECURSIVE findIndex(_, _, _)
findIndex(entries, id, k) ==
    IF k > Len(entries) THEN 0
    ELSE IF entries[k].id = id THEN k
    ELSE findIndex(entries, id, k + 1)

\* splice(index, 1)
splice(entries, index) ==
    [k \in 1 .. Len(entries) - 1 |-> IF k < index THEN entries[k] ELSE entries[k + 1]]

\* A removal that splices without looking at the index: splice(-1, 1) takes
\* the last entry.
removeInterceptor_Unchecked(c, coll, id) ==
    LET index == findIndex(c.interceptors[coll], id, 1)
    IN  IF index # 0
          THEN [c EXCEPT !.interceptors[coll] = splice(@, index)]
          ELSE [c EXCEPT !.interceptors[coll] = SubSeq(@, 1, Len(@) - 1)]

\* removeRequestInterceptor / removeResponseInterceptor
removeInterceptor(c, coll, id) ==
    LET index == findIndex(c.interceptors[coll], id, 1)
    IN  IF index # 0
          THEN [c EXCEPT !.interceptors[coll] = splice(@, index)]
          ELSE c

\* clearRequestInterceptors / clearResponseInterceptors: the field gets a new
\* array; a running loop keeps the old one.
clearInterceptors(c, coll) ==
    [c EXCEPT !.interceptors[coll] = <<>>,
              !.iter = IF @.coll = coll /\ @.live
                         THEN [@ EXCEPT !.live = FALSE, !.arr = c.interceptors[coll]]
                         ELSE @]

Logged(c, events) == [c EXCEPT !.log = @ \o events]

\* The request leaves ApiClient.request rejected.
IcReject(c, value) ==
    [c EXCEPT !.pc = "done", !.settled = "rejected", !.result = value,
              !.iter = NoIterator]

\* executeErrorInterceptors, from index c.i down: entries without onRejected
\* (and indexes the array no longer has) are passed without an await; the loop
\* stops at the await of the first handler it calls. At its end the result is
\* thrown: inside the try block into the catch block, which runs the loop
\* again; from the catch block out of executeRequest.
RECURSIVE ErrorLoop(_)
ErrorLoop(c) ==
    LET entries == c.interceptors.response
    IN  IF c.i = 0
          THEN IF c.inTry
                 THEN ErrorLoop(Logged([c EXCEPT !.inTry = FALSE, !.i = Len(entries)],
                        <<Call("response", "executeErrorInterceptors", 0, c.result.by, "none")>>))
                 ELSE IcReject(c, c.result)
          ELSE IF c.i <= Len(entries) /\ entries[c.i].onRejected # "none"
            THEN Logged([c EXCEPT !.pc = "errorChain",
                                  !.i = @ - 1,
                                  !.result = Settled("rejected", "error",
                                               Append(@.by, Tag("response", entries[c.i].id)))],
                   <<Call("response", "onRejected", entries[c.i].id, c.result.by, "error")>>)
            ELSE ErrorLoop([c EXCEPT !.i = @ - 1])

\* A call of executeErrorInterceptors(error)
StartErrorLoop(c, inTry) ==
    ErrorLoop(Logged([c EXCEPT !.iter = NoIterator,
                               !.inTry = inTry,
                               !.i = Len(c.interceptors.response),
                               !.result = Settled("rejected", "error", <<>>)],
      <<Call("response", "executeErrorInterceptors", 0, <<>>, "none")>>))

\* executeResponseInterceptors, from the element the iterator hands out next:
\* entries without onFulfilled are passed without an await. At the end of the
\* loop a response that is not ok goes to parseError, an ok one to the parser.
RECURSIVE ResponseLoop(_)
ResponseLoop(c) ==
    LET arr == IteratedArray(c)
        k == c.iter.next
    IN  IF k > Len(arr)
          THEN IF c.ok
                 THEN [c EXCEPT !.pc = "done", !.settled = "resolved", !.iter = NoIterator]
                 ELSE [c EXCEPT !.pc = "parseError", !.iter = NoIterator]
          ELSE IF arr[k].onFulfilled
            THEN Logged([c EXCEPT !.pc = "responseChain",
                                  !.iter.next = k + 1,
                                  !.result = Settled("fulfilled", "response",
                                               Append(@.by, Tag("response", arr[k].id)))],
                   <<Call("response", "onFulfilled", arr[k].id, c.result.by, "response")>>)
            ELSE ResponseLoop([c EXCEPT !.iter.next = k + 1])

\* executeRequestInterceptors, from the element the iterator hands out next.
\* At the end of the loop ApiClient.request builds the headers and the URL of
\* whatever the chain returned and calls executeWithRetry, which calls the
\* transport.
RequestLoop(c) ==
    LET arr == IteratedArray(c)
        k == c.iter.next
    IN  IF k > Len(arr)
          THEN Logged([c EXCEPT !.pc = "transport", !.iter = NoIterator],
                 <<Call("dispatch", "fetch", 0, c.result.by, "none")>>)
          ELSE LET tag == Tag("request", arr[k].id)
                   f == arr[k].interceptor
                   out == CASE f = "ok" -> c.result.kind
                            [] f = "bad" -> "other"
                            [] OTHER -> "throw"
                   called == Logged(c, <<Call("request", "interceptor", arr[k].id,
                                              c.result.by, out)>>)
               IN  IF f = "throw"
                     THEN IcReject(called, Settled("rejected", "error", <<tag>>))
                     ELSE [called EXCEPT !.pc = "requestChain",
                                         !.iter.next = k + 1,
                                         !.result = Settled("fulfilled", out,
                                                      Append(@.by, tag))]

\* An operation on a collection while the request is in flight is recorded in
\* the log of the request.
IcOperation(c, coll, op, id) ==
    IF c.pc = "idle"
      THEN c
      ELSE [Logged(c, <<Call(coll, op, id, <<>>, "none")>>) EXCEPT !.operations = @ + 1]

\* interceptors.request.use(interceptor)
IcUseRequest ==
    /\ ic.pc = "idle"
    /\ ic.uses < MaxUses
    /\ \E f \in RequestInterceptorKinds :
         LET id == ic.idCounter.request
         IN  ic' = [addInterceptor(ic, "request", RequestEntry(id, f))
                      EXCEPT !.uses = @ + 1]
    /\ UNCHANGED <<fn, api, adapter, hc, lk, dr>>

\* interceptors.response.use(onFulfilled, onRejected)
IcUseResponse ==
    /\ ic.pc = "idle"
    /\ ic.uses < MaxUses
    /\ \E h \in ResponseHandlerInputs :
         LET id == ic.idCounter.response
         IN  ic' = [addInterceptor(ic, "response", Entry(id, h[1], h[2]))
                      EXCEPT !.uses = @ + 1]
    /\ UNCHANGED <<fn, api, adapter, hc, lk, dr>>

\* interceptors.<coll>.eject(id), or the function that use returned
IcEject ==
    /\ MayOperate(ic)
    /\ \E coll \in Collections : \E id \in 0 .. MaxUses - 1 :
         /\ findIndex(ic.interceptors[coll], id, 1) # 0
         /\ ic' = IcOperation(removeInterceptor(ic, coll, id), coll, "eject", id)
    /\ UNCHANGED <<fn, api, adapter, hc, lk, dr>>

\* interceptors.<coll>.clear()
IcClear ==
    /\ MayOperate(ic)
    /\ \E coll \in Collections :
         /\ ic.interceptors[coll] # <<>>
         /\ ic' = IcOperation(clearInterceptors(ic, coll), coll, "clear", 0)
    /\ UNCHANGED <<fn, api, adapter, hc, lk, dr>>

\* ApiClient.request, the client not locked: the config is merged and
\* executeRequestInterceptors runs up to its first await.
IcRequest ==
    /\ ic.pc = "idle"
    /\ ic' = RequestLoop([ic EXCEPT !.iter = Iterator("request"),
                                    !.result = Settled("fulfilled", "config", <<>>)])
    /\ UNCHANGED <<fn, api, adapter, hc, lk, dr>>

\* The interceptor that executeRequestInterceptors awaits has settled.
IcRequestStep ==
    /\ ic.pc = "requestChain"
    /\ ic' = RequestLoop(ic)
    /\ UNCHANGED <<fn, api, adapter, hc, lk, dr>>

\* The transport settles: a response, ok or not, or a TypeError of fetch, which
\* the catch block of executeRequest wraps into a NetworkError and hands to
\* executeErrorInterceptors.
IcTransportSettles ==
    /\ ic.pc = "transport"
    /\ \/ \E ok \in BOOLEAN :
            ic' = ResponseLoop([ic EXCEPT !.ok = ok,
                                          !.iter = Iterator("response"),
                                          !.result = Settled("fulfilled", "response", <<>>)])
       \/ ic' = StartErrorLoop(ic, FALSE)
    /\ UNCHANGED <<fn, api, adapter, hc, lk, dr>>

\* The onFulfilled that executeResponseInterceptors awaits has settled.
IcResponseStep ==
    /\ ic.pc = "responseChain"
    /\ ic' = ResponseLoop(ic)
    /\ UNCHANGED <<fn, api, adapter, hc, lk, dr>>

\* parseError has read the body of the response that is not ok:
\* executeErrorInterceptors runs inside the try block.
IcParseErrorSettles ==
    /\ ic.pc = "parseError"
    /\ ic' = StartErrorLoop(ic, TRUE)
    /\ UNCHANGED <<fn, api, adapter, hc, lk, dr>>

\* The onRejected that executeErrorInterceptors awaits has settled.
IcErrorStep ==
    /\ ic.pc = "errorChain"
    /\ ic' = ErrorLoop(ic)
    /\ UNCHANGED <<fn, api, adapter, hc, lk, dr>>

IcNext ==
    \/ IcUseRequest
    \/ IcUseResponse
    \/ IcEject
    \/ IcClear
    \/ IcRequest
    \/ IcRequestStep
    \/ IcTransportSettles
    \/ IcResponseStep
    \/ IcParseErrorSettles
    \/ IcErrorStep

----------------------------------------------------------------------------
(* ApiClient: the LockManager and the requests of one client.              *)

\* The k-th call of a request method is request k.
Requests == 1 .. MaxRequests

\* retry: { attempts: 1 } in the config of the client
LkRetryConfig == [attempts |-> 1]

LkOff == [pc |-> "off"]

\* A request method was not called yet.
NotCalled == [pc |-> "new", attempt |-> 0, arrivedLocked |-> FALSE]

\* Where every request was when the client went from unlocked to locked
NoneAtLock == [r \in Requests |-> "new"]

\* new ApiClient(config): new LockManager()
LkStart ==
    [pc |-> "on",
     isLocked |-> FALSE,
     waitQueue |-> <<>>,
     released |-> <<>>,
     calls |-> 0,
     passed |-> <<>>,
     atLock |-> NoneAtLock,
     requests |-> [r \in Requests |-> NotCalled]]

LkInit == lk = LkStart

\* A lock that would also stop the requests past the wait point
lock_SuspendsInFlight(l) ==
    [l EXCEPT !.isLocked = TRUE,
              !.requests = [r \in Requests |->
                              IF @[r].pc \in {"requestChain", "fetch", "delay"}
                                THEN [@[r] EXCEPT !.pc = "waiting"]
                                ELSE @[r]]]

\* LockManager.lock
lock(l) == [l EXCEPT !.isLocked = TRUE]

\* A release of the waiters from the last one queued to the first
ReleaseOrder_LastFirst(queue) ==
    [k \in 1 .. Len(queue) |-> queue[Len(queue) + 1 - k]]

\* The order in which queue.forEach(({ resolve }) => resolve()) resolves
ReleaseOrder(queue) == queue

\* An unlock that clears the flag and resolves no waiter
unlock_LeavesQueue(l) == [l EXCEPT !.isLocked = FALSE]

\* LockManager.unlock: the flag is cleared, the queue is emptied and every
\* waiter is resolved, in the order of the queue. The continuations of the
\* waiters run in the order of their resolution.
unlock(l) ==
    [l EXCEPT !.isLocked = FALSE,
              !.waitQueue = <<>>,
              !.released = @ \o ReleaseOrder(l.waitQueue),
              !.requests = [r \in Requests |->
                              IF @[r].pc = "waiting"
                                THEN [@[r] EXCEPT !.pc = "released"]
                                ELSE @[r]]]

\* LockManager.waitIfLocked, called by request r: returns at once, or returns
\* a promise whose resolve is pushed on the queue
waitIfLocked(l, r) ==
    IF ~l.isLocked
      THEN [l EXCEPT !.requests[r].pc = "resuming"]
      ELSE [l EXCEPT !.requests[r].pc = "waiting",
                     !.requests[r].arrivedLocked = TRUE,
                     !.waitQueue = Append(@, r)]

\* Request r takes a step.
Proceed(l, r, pc) == [l EXCEPT !.requests[r].pc = pc]

\* ApiClient.lock()
LkLock ==
    /\ lk.pc = "on"
    /\ lk' = [lock(lk) EXCEPT !.atLock = IF lk.isLocked
                                          THEN @
                                          ELSE [r \in Requests |-> lk.requests[r].pc]]
    /\ UNCHANGED <<fn, api, adapter, hc, ic, dr>>

\* ApiClient.unlock()
LkUnlock ==
    /\ lk.pc = "on"
    /\ lk' = [unlock(lk) EXCEPT !.atLock = NoneAtLock]
    /\ UNCHANGED <<fn, api, adapter, hc, ic, dr>>

\* ApiClient.request is called: await this.lockManager.waitIfLocked()
LkRequest ==
    /\ lk.pc = "on"
    /\ lk.calls < MaxRequests
    /\ lk' = waitIfLocked([lk EXCEPT !.calls = @ + 1], lk.calls + 1)
    /\ UNCHANGED <<fn, api, adapter, hc, ic, dr>>

\* The await of waitIfLocked is over for request r: the config is merged, the
\* body normalized and executeRequestInterceptors called. A released waiter
\* resumes when the waiters released before it have resumed.
LkResume(r) ==
    /\ lk.pc = "on"
    /\ \/ /\ lk.requests[r].pc = "resuming"
          /\ lk' = [Proceed(lk, r, "requestChain")
                     EXCEPT !.passed = Append(@, r)]
       \/ /\ lk.released # <<>>
          /\ Head(lk.released) = r
          /\ lk.requests[r].pc = "released"
          /\ lk' = [Proceed(lk, r, "requestChain")
                     EXCEPT !.released = Tail(@),
                            !.passed = Append(@, r)]
    /\ UNCHANGED <<fn, api, adapter, hc, ic, dr>>

\* executeRequestInterceptors has returned: the headers and the URL are built,
\* executeWithRetry makes attempt 0.
LkInterceptorsDone(r) ==
    /\ lk.pc = "on"
    /\ lk.requests[r].pc = "requestChain"
    /\ lk' = Proceed(lk, r, "fetch")
    /\ UNCHANGED <<fn, api, adapter, hc, ic, dr>>

\* executeRequest returns or throws a retry-eligible error: the catch block of
\* executeWithRetry waits for the delay if attempts remain.
LkAttemptSettles(r) ==
    /\ lk.pc = "on"
    /\ lk.requests[r].pc = "fetch"
    /\ \/ lk' = Proceed(lk, r, "resolved")
       \/ lk' = IF AttemptsRemain(lk.requests[r].attempt, LkRetryConfig)
                  THEN Proceed(lk, r, "delay")
                  ELSE Proceed(lk, r, "rejected")
    /\ UNCHANGED <<fn, api, adapter, hc, ic, dr>>

\* The delay before the next attempt of request r is over.
LkDelayElapses(r) ==
    /\ lk.pc = "on"
    /\ lk.requests[r].pc = "delay"
    /\ lk' = [Proceed(lk, r, "fetch") EXCEPT !.requests[r].attempt = @ + 1]
    /\ UNCHANGED <<fn, api, adapter, hc, ic, dr>>

\* The steps of request r past the wait point
LkProceeds(r) ==
    \/ LkInterceptorsDone(r)
    \/ LkAttemptSettles(r)
    \/ LkDelayElapses(r)

LkNext ==
    \/ LkLock
    \/ LkUnlock
    \/ LkRequest
    \/ \E r \in Requests : LkResume(r)
    \/ \E r \in Requests : LkProceeds(r)

----------------------------------------------------------------------------
(* dispatchRequest and the request preparation of the fetch adapter: the   *)
(* adapter selection, the body, and the Content-Type header, on the config *)
(* object that the caller handed over.                                     *)

\* A header entry. A value of "application/json" is the adapter's default;
\* the caller's headers carry "text/plain".
Pair(name, value) == [name |-> name, value |-> value]

\* The lower-case form of a header name, as a Headers object keeps it.
Lower(name) == IF name = "Content-Type" THEN "content-type" ELSE name

\* new Headers(init): the names are normalised to lower case.
NewHeaders(entries) ==
    [kind |-> "Headers",
     entries |-> [k \in DOMAIN entries |->
                    Pair(Lower(entries[k].name), entries[k].value)]]

\* The entries a caller writes: nothing, or a content type in one of two
\* spellings, next to another header or not.
EntryInputs ==
    { <<>>,
      <<Pair("Content-Type", "text/plain")>>,
      <<Pair("content-type", "text/plain")>>,
      <<Pair("Accept", "text/html")>>,
      <<Pair("Accept", "text/html"), Pair("content-type", "text/plain")>> }

\* config.headers: absent, a plain object, an array of pairs, or a Headers
\* object.
HeadersInputs ==
    {[kind |-> "absent", entries |-> <<>>]}
      \cup {[kind |-> "object", entries |-> e] : e \in EntryInputs}
      \cup {[kind |-> "array", entries |-> e] : e \in EntryInputs}
      \cup {NewHeaders(e) : e \in EntryInputs}

\* config.data: absent, a string, the empty string, an object that
\* JSON.stringify serialises, an object with a cycle, a FormData.
DataInputs == {"undefined", "string", "emptyString", "object", "circular", "FormData"}

\* config.adapter: absent, the built-in name, another name, a function, a
\* value that is neither a string nor a function.
AdapterInputs == {"undefined", "fetch", "xhr", "function", "number"}

DispatchConfigs ==
    [adapter : AdapterInputs, signal : BOOLEAN,
     headers : HeadersInputs, data : DataInputs]

DrOff == [pc |-> "off"]

\* The state at the call of dispatchRequest(config).
DrStart(config, aborted) ==
    [pc |-> "init",
     config |-> config,            \* the config object, as it is now
     handed |-> config,            \* its fields when this attempt began
     signalAborted |-> aborted,    \* config.signal.aborted
     transport |-> "none",         \* the transport called: none | fetch | custom
     fetchHeaders |-> [kind |-> "absent", entries |-> <<>>],   \* fetchOptions.headers
     dispatches |-> 1,
     result |-> "pending"]

DrInit ==
    \E c \in DispatchConfigs : \E aborted \in BOOLEAN :
       /\ aborted => c.signal
       /\ dr = DrStart(c, aborted)

\* if (!config.adapter) config.adapter = "fetch"
DefaultAdapter(config) ==
    IF config.adapter = "undefined" THEN [config EXCEPT !.adapter = "fetch"] ELSE config

\* typeof config.adapter
TypeOfAdapter(a) ==
    CASE a \in {"fetch", "xhr"} -> "string"
      [] a = "function" -> "function"
      [] a = "undefined" -> "undefined"
      [] OTHER -> "number"

\* An adapter selection that takes every name for the built-in adapter.
SelectAdapter_AnyName(config) ==
    CASE TypeOfAdapter(config.adapter) = "string" -> "fetchAdapter"
      [] TypeOfAdapter(config.adapter) = "function" -> "custom"
      [] OTHER -> "ERR_BAD_CONFIG_VALUE"

\* The adapter selection: the built-in adapter, the caller's function, or an
\* error code.
SelectAdapter(config) ==
    CASE TypeOfAdapter(config.adapter) = "string" ->
           IF config.adapter = "fetch" THEN "fetchAdapter" ELSE "ERR_BAD_CONFIG_VALUE"
      [] TypeOfAdapter(config.adapter) = "function" -> "custom"
      [] OTHER -> "ERR_BAD_CONFIG_VALUE"

\* Prepare request body: the body handed to fetch, or "throws" when
\* JSON.stringify does.
RequestBody(data) ==
    CASE data = "undefined" -> "undefined"
      [] data \in {"string", "emptyString", "FormData"} -> data
      [] data = "object" -> "string"
      [] OTHER -> "throws"

\* headers.has(name) of a Headers object: the name is compared in lower case.
HeadersHas(h, name) == \E k \in DOMAIN h.entries : h.entries[k].name = Lower(name)

\* name in headers: an own key of a plain object, spelled exactly; an array
\* has its indexes and "length" for keys.
KeyIn(h, name) ==
    /\ h.kind = "object"
    /\ \E k \in DOMAIN h.entries : h.entries[k].name = name

\* fetchOptions.headers instanceof Headers ? headers.has("Content-Type")
\*   : headers && "Content-Type" in headers
HasContentType(h) ==
    IF h.kind = "Headers"
      THEN HeadersHas(h, "Content-Type")
      ELSE h.kind # "absent" /\ KeyIn(h, "Content-Type")

\* requestBody && typeof requestBody === "string" && !(...)
NeedsContentType(body, h) == body = "string" /\ ~HasContentType(h)

\* Writing a key: the value of an entry with that name is replaced, otherwise
\* an entry is added.
SetEntry(entries, name, value) ==
    IF \E k \in DOMAIN entries : entries[k].name = name
      THEN [k \in DOMAIN entries |->
              IF entries[k].name = name THEN Pair(name, value) ELSE entries[k]]
      ELSE Append(entries, Pair(name, value))

\* The body of the if: a new object when there are no headers, then set, push
\* or assign.
SetContentType(h) ==
    CASE h.kind = "absent" ->
           [kind |-> "object", entries |-> <<Pair("Content-Type", "application/json")>>]
      [] h.kind = "Headers" ->
           [h EXCEPT !.entries = SetEntry(@, Lower("Content-Type"), "application/json")]
      [] h.kind = "array" ->
           [h EXCEPT !.entries = Append(@, Pair("Content-Type", "application/json"))]
      [] OTHER ->
           [h EXCEPT !.entries = SetEntry(@, "Content-Type", "application/json")]

\* dispatchRequest(config), up to the call of the adapter. A caller's adapter
\* function is the transport of the attempt.
DrDispatch ==
    /\ dr.pc = "init"
    /\ dr' =
         IF AlreadyCanceled(dr)
           THEN [dr EXCEPT !.pc = "done", !.result = "ERR_CANCELED"]
           ELSE LET d == [dr EXCEPT !.config = DefaultAdapter(@)]
                    selected == SelectAdapter(d.config)
                IN  CASE selected = "fetchAdapter" -> [d EXCEPT !.pc = "adapter"]
                      [] selected = "custom" ->
                           [d EXCEPT !.pc = "done", !.transport = "custom",
                                     !.result = "custom"]
                      [] OTHER -> [d EXCEPT !.pc = "done", !.result = selected]
    /\ UNCHANGED <<fn, api, adapter, hc, ic, lk>>

\* The fetch adapter from the body preparation to the call of fetch.
\* fetchOptions.headers is the object config.headers, so set, push and assign
\* write into the config; only the object made for absent headers is new.
DrAdapter ==
    /\ dr.pc = "adapter"
    /\ LET body == RequestBody(dr.config.data)
           h == dr.config.headers
           headers == IF NeedsContentType(body, h) THEN SetContentType(h) ELSE h
       IN  dr' =
             IF body = "throws"
               THEN [dr EXCEPT !.pc = "done", !.result = "ERR_BAD_REQUEST"]
               ELSE [dr EXCEPT !.pc = "done",
                               !.config.headers = IF h.kind = "absent" THEN h ELSE headers,
                               !.fetchHeaders = headers,
                               !.transport = "fetch",
                               !.result = "fetched"]
    /\ UNCHANGED <<fn, api, adapter, hc, ic, lk>>

\* The caller dispatches the same config object again.
DrAgain ==
    /\ dr.pc = "done"
    /\ dr.dispatches < MaxDispatches
    /\ dr' = [dr EXCEPT !.pc = "init",
                        !.handed = dr.config,
                        !.transport = "none",
                        !.fetchHeaders = [kind |-> "absent", entries |-> <<>>],
                        !.dispatches = @ + 1,
                        !.result = "pending"]
    /\ UNCHANGED <<fn, api, adapter, hc, ic, lk>>

DrNext ==
    \/ DrDispatch
    \/ DrAdapter
    \/ DrAgain

----------------------------------------------------------------------------
(* One behaviour runs one subsystem.                                       *)

Others(v) ==
    /\ (v = "fn" \/ fn = FnOff)
    /\ (v = "api" \/ api = ApiOff)
    /\ (v = "adapter" \/ adapter = AdapterOff)
    /\ (v = "hc" \/ hc = HcOff)
    /\ (v = "ic" \/ ic = IcOff)
    /\ (v = "lk" \/ lk = LkOff)
    /\ (v = "dr" \/ dr = DrOff)

Init ==
    \/ FnInit /\ Others("fn")
    \/ AdapterInit /\ Others("adapter")
    \/ ApiInit /\ Others("api")
    \/ HcInit /\ Others("hc")
    \/ IcInit /\ Others("ic")
    \/ LkInit /\ Others("lk")
    \/ DrInit /\ Others("dr")

Next ==
    \/ ApplyShouldRetry
    \/ ApplyRetryDelay
    \/ ApplyHttpClientMerge
    \/ ApplyApiClientMerge
    \/ AdapterNext
    \/ ApiNext
    \/ HcNext
    \/ IcNext
    \/ LkNext
    \/ DrNext

Spec == Init /\ [][Next]_vars

\* One ApiClient and its requests, on an event loop that runs every job it
\* holds: the continuation of an await whose promise is resolved is a
\* microtask, and the microtask queue is drained before the loop idles.
LkAlone == LkInit /\ Others("lk")

LkFairSpec ==
    /\ LkAlone
    /\ [][LkNext]_vars
    /\ WF_vars(\E r \in Requests : LkResume(r))

----------------------------------------------------------------------------
(* The claims.                                                             *)

\* The number of dispatch attempts made so far.
Dispatches(a) == Cardinality({k \in DOMAIN a.log : a.log[k].ev = "dispatch"})

\* The place in the log of the last dispatch (0: none yet).
LastDispatch(a) ==
    LET ds == {k \in DOMAIN a.log : a.log[k].ev = "dispatch"}
    IN  IF ds = {} THEN 0 ELSE CHOOSE k \in ds : \A j \in ds : j <= k

\* C1: in the fetch adapter with a timer and a caller signal both armed, the
\* attempt fails with ERR_CANCELED when the caller signal fired first and with
\* ERR_TIMEDOUT when the timer fired first.
C1_FirstToFireWins ==
    (adapter.pc = "done" /\ adapter.finalSignal = "combined")
      => /\ adapter.firstFired = "user" => adapter.result = "ERR_CANCELED"
         /\ adapter.firstFired = "timer" => adapter.result = "ERR_TIMEDOUT"

\* C2: an attempt of executeWithRetry that fails with an AbortError is never
\* followed by another attempt, whatever the retry policy.
C2_CanceledNeverRetried ==
    api.pc # "off"
      => \A i \in DOMAIN api.errors :
            api.errors[i].name = "AbortError" => Dispatches(api) = i

\* Every attempt made so far has failed, each with an error the retry policy
\* accepts.
AllAttemptsFailEligible(a) ==
    /\ Len(a.errors) = Len(a.transport)
    /\ \A i \in DOMAIN a.errors : ShouldRetryRequest(a.config.retry, a.errors[i])

\* C3: with retry.attempts = N a run makes at most N+1 dispatch attempts and
\* at most N delays and is never stuck before it has settled; when every
\* attempt fails with a retry-eligible error, it settles after exactly N+1
\* attempts and exactly N delays.
C3_AttemptCount ==
    api.pc # "off"
      => /\ Dispatches(api) <= api.config.retry.attempts + 1
         /\ Len(api.delays) <= api.config.retry.attempts
         /\ api.pc = "done" \/ ENABLED ApiNext
         /\ (api.pc = "done" /\ AllAttemptsFailEligible(api))
              => /\ Dispatches(api) = api.config.retry.attempts + 1
                 /\ Len(api.delays) = api.config.retry.attempts

C3_Witness ==
    /\ api.pc = "done"
    /\ api.config.retry.attempts = 2
    /\ AllAttemptsFailEligible(api)
    /\ Dispatches(api) = 3
    /\ Len(api.delays) = 2

\* The delay the retry policy is stated to give after failing attempt i.
StatedDelay(retryConfig, attempt) ==
    LET baseDelay == IF retryConfig.delay.kind = "function"
                       THEN retryConfig.delay.k * (attempt + 1)
                       ELSE retryConfig.delay.k
        delay == IF retryConfig.backoff
                   THEN baseDelay * Pow(retryConfig.backoffMultiplier[1], attempt)
                   ELSE baseDelay
    IN  IF IsSet(retryConfig.maxDelay)
          THEN Min(delay, retryConfig.maxDelay[1])
          ELSE delay

\* C4: the delay after failing attempt i is baseDelay * multiplier^i with
\* backoff and baseDelay without, clamped to maxDelay when maxDelay is set.
\* Stated for the positive baseDelay, multiplier and maxDelay, which no
\* `|| default` of executeWithRetry replaces.
C4_DelayFormula ==
    ( /\ fn.op = "retryDelay"
      /\ fn.out # <<>>
      /\ fn.retryConfig.delay.kind # "undefined" /\ fn.retryConfig.delay.k > 0
      /\ IsSet(fn.retryConfig.backoffMultiplier)
      /\ fn.retryConfig.backoffMultiplier[1] > 0
      /\ IsSet(fn.retryConfig.maxDelay) => fn.retryConfig.maxDelay[1] > 0 )
      => fn.out[1] = StatedDelay(fn.retryConfig, fn.attempt)

\* The status rule as stated: the list when one is supplied, 5xx otherwise.
StatedStatusRule(error, retryableStatusCodes) ==
    IF retryableStatusCodes.present
      THEN error.status[1] \in retryableStatusCodes.codes
      ELSE error.status[1] >= 500 /\ error.status[1] < 600

\* C5: with no custom predicate an error carrying a status is retried exactly
\* when the status is in the supplied list, or no list is supplied and the
\* status is 5xx.
C5_StatusRetryRule ==
    (fn.op = "shouldRetry" /\ fn.out # <<>> /\ IsSet(fn.error.status))
      => fn.out[1] = StatedStatusRule(fn.error, fn.retryableStatusCodes)

\* C6: with no custom predicate and attempts remaining, an attempt that
\* surfaces a NetworkError for a transport-level network failure is followed
\* by another attempt.
C6_NetworkFailureRetried ==
    api.pc # "off"
      => \A i \in DOMAIN api.errors :
            ( /\ api.config.retry.retryCondition = "none"
              /\ api.transport[i] = Rejection(FetchTypeError)
              /\ api.errors[i].name = "NetworkError"
              /\ AttemptsRemain(i - 1, api.config.retry) )
              => \/ Dispatches(api) > i
                 \/ api.pc = "delay" /\ Len(api.transport) = i

C8_ErrorChainAfterRetryLoop ==
    api.pc # "off"
      => \A i, j \in DOMAIN api.log :
            ~(i < j /\ api.log[i].ev = "onRejected" /\ api.log[j].ev = "dispatch")

\* The onRejected handler of entry `e` was called in the last attempt.
CalledInLastAttempt(a, e) ==
    \E k \in DOMAIN a.log :
        k > LastDispatch(a) /\ a.log[k] = Event("onRejected", e.id)

\* C9: every error of a dispatch attempt passes through the onRejected handler
\* of every registered interceptor before the caller sees it.
C9_EveryErrorThroughHandlers ==
    (api.pc = "done" /\ api.settled = "rejected" /\ api.errors # <<>>)
      => \A k \in DOMAIN api.config.responseInterceptors :
            LET e == api.config.responseInterceptors[k]
            IN  e.onRejected # "none" => CalledInLastAttempt(api, e)

\* C10: when an onRejected handler returns a value instead of throwing, the
\* caller's request resolves.
C10_RecoveryResolves ==
    ( /\ api.pc = "done"
      /\ \E k \in DOMAIN api.config.responseInterceptors :
            LET e == api.config.responseInterceptors[k]
            IN  e.onRejected = "recover" /\ CalledInLastAttempt(api, e) )
      => api.settled = "resolved"

----------------------------------------------------------------------------
(* The claims on the interceptor chains, the collections and the lock.     *)

HcLog == IF hc.pc = "off" THEN <<>> ELSE hc.log
IcLog == IF ic.pc = "off" THEN <<>> ELSE ic.log

\* the calls of a handler of a collection in a log
CallsOf(log, coll, handlers) ==
    {k \in DOMAIN log : log[k].coll = coll /\ log[k].handler \in handlers}

Last(S) == CHOOSE m \in S : \A x \in S : x <= m

\* the eject and clear calls recorded in a log
OperationsOn(log, coll) == CallsOf(log, coll, {"eject", "clear"})

\* C11: on the error path the onRejected handlers of the response collection
\* are called last registered first, each with the result of the one called
\* before it; in HttpClient.request and, within one run of
\* executeErrorInterceptors, in ApiClient.
ReverseOrder(log) ==
    \A q \in CallsOf(log, "response", {"onRejected"}) :
      LET before == {p \in CallsOf(log, "response", {"onRejected", "executeErrorInterceptors"}) :
                       p < q}
      IN  before # {} /\ log[Last(before)].handler = "onRejected"
            => /\ log[Last(before)].id > log[q].id
               /\ log[q].input = Append(log[Last(before)].input,
                                        Tag("response", log[Last(before)].id))

C11_ErrorPathReverseOrder == ReverseOrder(HcLog) /\ ReverseOrder(IcLog)

\* C12: in a request of HttpClient that succeeded, a request interceptor of
\* the chain was skipped only if it has a runWhen that returns false; every
\* other one was called with the config.
C12_SkippedOnlyWhenRunWhenFalse ==
    hc.pc = "done" /\ hc.promise.state = "fulfilled" /\ hc.promise.kind = "response"
      => \A k \in DOMAIN hc.chain :
           hc.chain[k].stage = "request"
             => (hc.chain[k].interceptor.runWhen # "false"
                   <=> \E c \in CallsOf(hc.log, "request", {"onFulfilled"}) :
                         hc.log[c].id = hc.chain[k].id)

\* C13: the onFulfilled handlers of a chain are called in registration order,
\* each with the result of the one called before it; the transport is called
\* once, after every call of the request chain and before every call of the
\* response chain.
InOrder(log, coll) ==
    LET calls == CallsOf(log, coll, {"onFulfilled", "interceptor"})
    IN  \A q \in calls :
          LET before == {p \in calls : p < q}
          IN  IF before = {}
                THEN log[q].input = <<>>
                ELSE /\ log[Last(before)].id < log[q].id
                     /\ log[Last(before)].out # "throw"
                     /\ log[q].input = Append(log[Last(before)].input,
                                              Tag(coll, log[Last(before)].id))

SuccessPathOrder(log) ==
    LET dispatches == CallsOf(log, "dispatch", {"dispatchRequest", "fetch"})
        requestCalls == CallsOf(log, "request", {"onFulfilled", "interceptor"})
        responseCalls == CallsOf(log, "response", {"onFulfilled"})
    IN  /\ InOrder(log, "request")
        /\ InOrder(log, "response")
        /\ Cardinality(dispatches) <= 1
        /\ responseCalls # {} => dispatches # {}
        /\ \A d \in dispatches :
             /\ \A p \in requestCalls : p < d
             /\ \A q \in responseCalls : d < q
             /\ requestCalls # {} =>
                  log[d].input = Append(log[Last(requestCalls)].input,
                                        Tag("request", log[Last(requestCalls)].id))

C13_SuccessPathSequential == SuccessPathOrder(HcLog) /\ SuccessPathOrder(IcLog)

\* a request of HttpClient that resolved after two request handlers, the
\* transport and a response handler
C13_Witness ==
    /\ hc.pc = "done"
    /\ hc.promise.state = "fulfilled"
    /\ Cardinality(CallsOf(hc.log, "request", {"onFulfilled"})) >= 2
    /\ CallsOf(hc.log, "response", {"onFulfilled"}) # {}

\* C14: once a request interceptor has thrown or returned a value that is no
\* request config, the transport is not called and the request fails.
FailedBeforeDispatch(log) ==
    \E k \in CallsOf(log, "request", {"onFulfilled", "interceptor"}) :
      log[k].out \in {"throw", "other"}

C14_FailedRequestStageNeverDispatched ==
    /\ FailedBeforeDispatch(HcLog)
         => /\ CallsOf(hc.log, "dispatch", {"dispatchRequest"}) = {}
            /\ hc.pc = "done" => hc.promise.state = "rejected"
    /\ FailedBeforeDispatch(IcLog)
         => /\ CallsOf(ic.log, "dispatch", {"fetch"}) = {}
            /\ ic.pc = "done" => ic.settled = "rejected"

\* C15: when the only operations made during the request chain of an ApiClient
\* request were ejects of interceptors that had been called and had settled
\* (a later one had been called since), every interceptor that is still in
\* the collection was called exactly once by the time the transport is called.
EjectedBehind(log, q) ==
    /\ log[q].handler = "eject"
    /\ \E p1, p2 \in CallsOf(log, "request", {"interceptor"}) :
         p1 < p2 /\ p2 < q /\ log[p1].id = log[q].id

C15_EjectBehindLeavesRest ==
    ic.pc \notin {"off", "idle", "requestChain"}
    /\ CallsOf(ic.log, "dispatch", {"fetch"}) # {}
    /\ OperationsOn(ic.log, "request") # {}
    /\ (\A q \in OperationsOn(ic.log, "request") : EjectedBehind(ic.log, q))
      => \A k \in DOMAIN ic.interceptors.request :
           Cardinality({c \in CallsOf(ic.log, "request", {"interceptor"}) :
                          ic.log[c].id = ic.interceptors.request[k].id}) = 1

\* C16: a handler of HttpClient is not called for a request once its entry was
\* ejected, or its collection cleared, while that request was in flight.
C16_InFlightReadsLiveCollection ==
    \A q \in CallsOf(HcLog, "request", {"onFulfilled", "onRejected"})
             \cup CallsOf(HcLog, "response", {"onFulfilled", "onRejected"}) :
      \A p \in OperationsOn(hc.log, hc.log[q].coll) :
        p < q => hc.log[p].handler = "eject" /\ hc.log[p].id # hc.log[q].id

\* C17: a request that is waiting has not passed the wait point and is in the
\* queue, which holds the waiting requests in arrival order and is empty
\* whenever the client is unlocked; a request called while the client was
\* locked has waited; the waiters pass the wait point in arrival order.
Increasing(s) == \A p, q \in DOMAIN s : p < q => s[p] < s[q]

InSeq(s, x) == \E k \in DOMAIN s : s[k] = x

Waiters(l) == {r \in Requests : l.requests[r].arrivedLocked}

RECURSIVE Restrict(_, _)
Restrict(s, S) ==
    IF s = <<>> THEN <<>>
    ELSE (IF Head(s) \in S THEN <<Head(s)>> ELSE <<>>) \o Restrict(Tail(s), S)

C17_LockedRequestsQueueInOrder ==
    lk.pc = "on"
      => /\ \A r \in Requests :
              /\ lk.requests[r].pc = "waiting" <=> InSeq(lk.waitQueue, r)
              /\ lk.requests[r].pc = "waiting" => ~InSeq(lk.passed, r)
              /\ lk.requests[r].pc = "released" <=> InSeq(lk.released, r)
              /\ lk.requests[r].pc = "released" => ~InSeq(lk.passed, r)
         /\ Increasing(lk.waitQueue)
         /\ Increasing(lk.released)
         /\ Increasing(Restrict(lk.passed, Waiters(lk)))
         /\ ~lk.isLocked => lk.waitQueue = <<>>

\* two requests called while the client was locked have passed the wait point
\* after unlock()
C17_Witness ==
    /\ lk.pc = "on"
    /\ lk.waitQueue = <<>>
    /\ \E r1, r2 \in Waiters(lk) :
         r1 # r2 /\ InSeq(lk.passed, r1) /\ InSeq(lk.passed, r2)

\* C18: lock() changes no request, and a request past the wait point that has
\* not settled can take its next step, the client locked or not.
PastWaitPoint(l, r) == l.requests[r].pc \in {"requestChain", "fetch", "delay"}

C18_LockLeavesInFlightRequests ==
    /\ [](lk.pc = "on" => \A r \in Requests :
            PastWaitPoint(lk, r) => ENABLED LkProceeds(r))
    /\ [][lk.pc = "on" /\ ~lk.isLocked /\ lk'.isLocked
            => lk'.requests = lk.requests]_vars

\* a request that was running its request interceptors when lock() was called
\* has made an attempt, waited the delay, retried and settled, the client
\* still locked
C18_Witness ==
    /\ lk.pc = "on"
    /\ lk.isLocked
    /\ \E r \in Requests :
         /\ lk.atLock[r] = "requestChain"
         /\ lk.requests[r].pc \in {"resolved", "rejected"}
         /\ lk.requests[r].attempt = 1

\* C19: the ids that use() returned for a collection of HttpClient are
\* strictly increasing.
C19_IdsNeverReissued ==
    hc.pc # "off"
      => \A coll \in Collections : Increasing(hc.issued[coll])

\* C20: an entry of a collection of ApiClient that is still in the collection
\* after a step is at the position it had before the step.
C20_EjectKeepsPositions ==
    [][ic.pc # "off"
         => \A coll \in Collections : \A k \in DOMAIN ic.interceptors[coll] :
              (\E j \in DOMAIN ic'.interceptors[coll] :
                 ic'.interceptors[coll][j] = ic.interceptors[coll][k])
                => /\ k \in DOMAIN ic'.interceptors[coll]
                   /\ ic'.interceptors[coll][k] = ic.interceptors[coll][k]]_vars

\* ---------------------------------------------------------------------------
\* Claims C21..C30
\* ---------------------------------------------------------------------------

\* The ids a caller may hand to eject: issued ones, -1, and ids beyond the
\* last one issued.
EjectIds == -1 .. MaxUses + 1

\* HttpClient: the id is not the index of an interceptor of the collection
\* (never issued, or its slot was ejected or cleared).
HcNotLive(coll, id) ==
    \/ ~InSeq(hc.issued[coll], id)
    \/ id + 1 \notin DOMAIN hc.interceptors[coll]
    \/ hc.interceptors[coll][id + 1] = NullInterceptor

\* ApiClient: no entry of the collection has the id (never issued: negative or
\* at least the counter; or removed).
IcNotLive(coll, id) ==
    \/ id < 0
    \/ id >= ic.idCounter[coll]
    \/ \A k \in DOMAIN ic.interceptors[coll] : ic.interceptors[coll][k].id # id

\* C21: ejecting an id that was already ejected or never issued leaves the
\* collection as it is, and a second eject of an id changes nothing after the
\* first, in HttpClient and in ApiClient.
C21_EjectIdempotentTotal ==
    /\ hc.pc # "off"
         => \A coll \in Collections : \A id \in EjectIds :
              LET x == hc.interceptors[coll]
              IN  /\ HcNotLive(coll, id) => eject(x, id) = x
                  /\ eject(eject(x, id), id) = eject(x, id)
    /\ ic.pc # "off"
         => \A coll \in Collections : \A id \in EjectIds :
              LET once == removeInterceptor(ic, coll, id)
              IN  /\ IcNotLive(coll, id) => once = ic
                  /\ removeInterceptor(once, coll, id) = once

\* An id of ApiClient was removed while another entry stays, so that a second
\* removal of it has something it could take.
C21_Witness ==
    /\ ic.pc # "off"
    /\ \E coll \in Collections : \E id \in 0 .. MaxUses - 1 :
         /\ id < ic.idCounter[coll]
         /\ IcNotLive(coll, id)
         /\ ic.interceptors[coll] # <<>>

\* C22: a response with a non-success status that no abort interfered with
\* ends in ERR_BAD_REQUEST when 400 <= status < 500 and in ERR_BAD_RESPONSE
\* otherwise, whatever its body and the responseType.
C22_StatusClassification ==
    ( /\ adapter.pc = "done"
      /\ IsSet(adapter.status)
      /\ adapter.firstFired = "none"
      /\ ~adapter.isTimeoutAborted
      /\ ~adapter.signalAborted )
      => LET status == adapter.status[1]
         IN  StatusCheck(status) # "ok"
               => adapter.result =
                    IF status >= 400 /\ status < 500
                      THEN "ERR_BAD_REQUEST" ELSE "ERR_BAD_RESPONSE"

\* C23: when fetch rejected because its signal was aborted, the result is
\* ERR_TIMEDOUT exactly when the timer's callback ran and ERR_CANCELED
\* otherwise; when it rejected for another reason, the result is ERR_NETWORK.
C23_AbortClassifiedByRecordedReason ==
    adapter.pc = "done"
      => /\ adapter.failure = "abort"
              => adapter.result =
                   IF adapter.isTimeoutAborted THEN "ERR_TIMEDOUT" ELSE "ERR_CANCELED"
         /\ adapter.failure = "network" => adapter.result = "ERR_NETWORK"

\* C24: an attempt that begins with the caller signal already aborted ends at
\* once with ERR_CANCELED: fetch is not called, no timer is created and no
\* listener is registered (the fetch adapter), and no adapter is called
\* (dispatchRequest).
C24_PreAbortedFailsFast ==
    /\ [][(adapter.pc = "init" /\ adapter.config.signal /\ adapter.signalAborted
             /\ adapter'.pc # "init")
            => /\ adapter'.pc = "done"
               /\ adapter'.result = "ERR_CANCELED"
               /\ ~adapter'.fetchCalled
               /\ adapter'.timersCreated = 0
               /\ ~adapter'.timerPending
               /\ adapter'.signalListeners = {}
               /\ adapter'.timeoutSignalListeners = {}]_vars
    /\ [][(dr.pc = "init" /\ dr.config.signal /\ dr.signalAborted
             /\ dr'.pc # "init")
            => /\ dr'.pc = "done"
               /\ dr'.result = "ERR_CANCELED"
               /\ dr'.transport = "none"]_vars

\* An attempt with a timeout and a caller signal that was aborted before the
\* attempt began has ended.
C24_Witness ==
    /\ adapter.pc = "done"
    /\ adapter.config.signal
    /\ Timeout(adapter.config) > 0
    /\ adapter.config.url = "ok"
    /\ adapter.result = "ERR_CANCELED"
    /\ ~adapter.fetchCalled

\* C25 as stated: with timeout = 0 and no caller signal, an attempt creates no
\* timer, registers no abort listener and calls the transport without a
\* cancellation signal (fetch adapter and ApiClient.executeRequest).
C25_NoTimeoutNoSignalNoWiring ==
    /\ ( /\ adapter.pc \notin {"off", "init"}
         /\ adapter.config.timeout = Some(0)
         /\ ~adapter.config.signal )
         => /\ adapter.timersCreated = 0
            /\ adapter.signalListeners = {}
            /\ adapter.timeoutSignalListeners = {}
            /\ adapter.fetchCalled => adapter.finalSignal = "none"
    /\ ( /\ api.pc \notin {"off", "init"}
         /\ api.config.timeout = Some(0) )
         => /\ ~api.timerPending
            /\ TransportSignal(api.config) = "none"

\* C25, amended: with timeout = 0 and no caller signal, an attempt creates no
\* timer and registers no abort listener; the fetch adapter calls fetch
\* without a signal, and the signal that ApiClient.executeRequest hands to
\* fetch is never aborted.
C25_NoTimeoutNoSignalNoTimer ==
    /\ ( /\ adapter.pc \notin {"off", "init"}
         /\ adapter.config.timeout = Some(0)
         /\ ~adapter.config.signal )
         => /\ adapter.timersCreated = 0
            /\ ~adapter.timerPending
            /\ adapter.signalListeners = {}
            /\ adapter.timeoutSignalListeners = {}
            /\ adapter.fetchCalled => adapter.finalSignal = "none"
    /\ ( /\ api.pc \notin {"off", "init"}
         /\ api.config.timeout = Some(0) )
         => /\ ~api.timerPending
            /\ ~api.signalAborted

\* An attempt of ApiClient with timeout 0 has called fetch and waits for it.
C25_Witness ==
    /\ api.pc = "fetch"
    /\ api.config.timeout = Some(0)
    /\ TransportSignal(api.config) = "abortController"

\* C26 as stated: an attempt whose config has no timeout field arms no timer
\* and does not end in a timeout error.
C26_AbsentTimeoutIsNoTimeout ==
    /\ (adapter.pc # "off" /\ adapter.config.timeout = None)
         => /\ adapter.timersCreated = 0
            /\ adapter.result # "ERR_TIMEDOUT"
    /\ (api.pc # "off" /\ api.config.timeout = None)
         => /\ ~api.timerPending
            /\ \A k \in DOMAIN api.errors : api.errors[k] # TimeoutError

\* C26, amended: the fetch adapter takes an absent timeout for 30000 ms: it
\* arms its timer exactly when the timeout is absent or positive, and only an
\* attempt that armed it ends in ERR_TIMEDOUT. ApiClient.executeRequest takes
\* an absent timeout for 0: no timer and no timeout error.
C26_AbsentTimeoutDefaults ==
    /\ (adapter.pc # "off" /\ adapter.fetchCalled)
         => /\ adapter.config.timeout = None => adapter.timersCreated = 1
            /\ adapter.timersCreated = 0
                 <=> (IsSet(adapter.config.timeout) /\ adapter.config.timeout[1] <= 0)
    /\ (adapter.pc # "off" /\ adapter.result = "ERR_TIMEDOUT")
         => adapter.timersCreated = 1
    /\ (api.pc # "off" /\ api.config.timeout = None)
         => /\ ~api.timerPending
            /\ \A k \in DOMAIN api.errors : api.errors[k] # TimeoutError

\* An attempt of the adapter without a timeout field ended in ERR_TIMEDOUT.
C26_Witness ==
    /\ adapter.pc = "done"
    /\ adapter.config.timeout = None
    /\ adapter.result = "ERR_TIMEDOUT"

\* The content-type entries of a header container, whatever the spelling.
ContentTypes(h) == {k \in DOMAIN h.entries : Lower(h.entries[k].name) = "content-type"}

\* C27: when the fetch adapter hands a non-empty string body to fetch, the
\* headers it hands over are the caller's when those set a content type in any
\* spelling, and otherwise have exactly one content type, application/json.
C27_ContentTypeDefaulting ==
    ( /\ dr.pc = "done"
      /\ dr.transport = "fetch"
      /\ RequestBody(dr.handed.data) = "string" )
      => IF ContentTypes(dr.handed.headers) # {}
           THEN dr.fetchHeaders = dr.handed.headers
           ELSE /\ Cardinality(ContentTypes(dr.fetchHeaders)) = 1
                /\ \A k \in ContentTypes(dr.fetchHeaders) :
                     dr.fetchHeaders.entries[k].value = "application/json"

\* C28: when a dispatch attempt is over, every field of the config object has
\* the value it had when the attempt began.
C28_ConfigNotModified ==
    dr.pc = "done" => dr.config = dr.handed

C30_MergeKeepsBaseFields ==
    (fn.op = "merge" /\ fn.out # <<>>)
      => LET out == fn.out[1]
         IN  \A k \in ConfigKeys :
               /\ fn.call[k].kind \in {"absent", "undefined"} => out[k] = fn.base[k]
               /\ (fn.call[k].kind = "object" /\ fn.base[k].kind = "object")
                    => \A h \in HeaderKeys :
                         fn.call[k].fields[h] \in {"absent", "undefined"}
                           => out[k].fields[h] = fn.base[k].fields[h]

\* ---------------------------------------------------------------------------
\* Claims C31..C40
\* ---------------------------------------------------------------------------

\* C31: with a retryCondition and attempts remaining, an attempt that failed
\* with an error other than an AbortError is followed by a delay exactly when
\* the predicate accepts the error, whatever the default rules say of it.
C31_PredicateDecides ==
    (api.pc # "off" /\ api.config.retry.retryCondition # "none")
      => \A k \in DOMAIN api.errors :
           (k < MaxAttempts(api.config.retry) /\ api.errors[k].name # "AbortError")
             => IF api.config.retry.retryCondition = "true"
                  THEN Len(api.delays) >= k
                  ELSE /\ Len(api.delays) < k
                       /\ Len(api.errors) = k
                       /\ Dispatches(api) = k
                       /\ api.pc = "done"

\* A 503 was not retried because the predicate refused it, with attempts left.
C31_Witness ==
    /\ api.pc = "done"
    /\ api.config.retry.retryCondition = "false"
    /\ api.config.retry.attempts >= 1
    /\ Len(api.errors) = 1
    /\ api.errors[1] = ApiError(503)

\* What the last attempt made so far threw or returned.
LastAttemptOutcome(a) ==
    AfterTransport(a.config.responseInterceptors, a.transport[Len(a.transport)],
                   a.signalAborted)

\* C32: a run of executeWithRetry that ends in failure rejects with what its
\* last attempt threw, and an attempt whose error the retry decision refuses
\* is the last one: no delay and no dispatch follow it.
C32_LastErrorDelivered ==
    api.pc # "off"
      => /\ (api.pc = "done" /\ api.settled = "rejected")
              => /\ Len(api.transport) = Dispatches(api)
                 /\ ~LastAttemptOutcome(api).ok
                 /\ api.value = <<LastAttemptOutcome(api).val>>
         /\ \A k \in DOMAIN api.errors :
              (k < MaxAttempts(api.config.retry)
                 /\ ~ShouldRetryRequest(api.config.retry, api.errors[k]))
                => /\ api.pc = "done"
                   /\ Len(api.errors) = k
                   /\ Len(api.delays) = k - 1
                   /\ Dispatches(api) = k

\* Attempts were exhausted by two different errors: a 503, then a 404.
C32_Witness ==
    /\ api.pc = "done"
    /\ api.settled = "rejected"
    /\ Len(api.errors) = 2
    /\ api.errors[1] = ApiError(503)
    /\ api.errors[2] = ApiError(404)
    /\ api.value = <<ApiError(404)>>

\* C33: without a retryCondition, an attempt of ApiClient whose timer fired
\* throws a TimeoutError; with attempts remaining a delay and another attempt
\* follow it; and every attempt starts with its own timer pending and its
\* own signal not aborted.
C33_TimeoutRetried ==
    /\ [](api.pc # "off"
           => /\ \A k \in DOMAIN api.errors :
                   ( /\ api.errors[k] = TimeoutError
                     /\ k < MaxAttempts(api.config.retry)
                     /\ api.config.retry.retryCondition = "none" )
                     => /\ Len(api.delays) >= k
                        /\ Dispatches(api) >= k + 1 \/ api.pc = "delay"
              /\ api.pc = "delay" => ENABLED ApiDelayElapses)
    /\ [][api.pc # "off"
           => /\ (api.pc = "fetch" /\ api.signalAborted /\ api' # api)
                   => /\ Len(api'.errors) = Len(api.errors) + 1
                      /\ api'.errors[Len(api'.errors)] = TimeoutError
              /\ (api'.pc = "fetch" /\ api.pc # "fetch")
                   => /\ api'.timerPending
                        <=> (OrDefault(api.config.timeout, 0) # 0 /\ ~api.config.useXHR)
                      /\ ~api'.signalAborted]_vars

\* The second attempt is in flight with its timer pending, after the timer of
\* the first attempt had fired.
C33_Witness ==
    /\ api.pc = "fetch"
    /\ api.config.retry.retryCondition = "none"
    /\ api.errors = <<TimeoutError>>
    /\ Dispatches(api) = 2
    /\ api.timerPending
    /\ ~api.signalAborted

\* C34: in one request of ApiClient executeRequestInterceptors is called
\* once, before the first attempt, and every attempt is made with the config,
\* the URL and the headers that came of that call.
C34_RequestChainOnce ==
    api.pc \notin {"off", "init"}
      => /\ api.chainRuns = 1
         /\ api.log[1].ev = "requestInterceptors"
         /\ \A k \in DOMAIN api.log : api.log[k].ev = "requestInterceptors" => k = 1
         /\ Len(api.dispatched) = Dispatches(api)
         /\ \A k \in DOMAIN api.dispatched : api.dispatched[k] = 1

\* A request made three attempts.
C34_Witness ==
    /\ api.pc = "done"
    /\ Dispatches(api) = 3
    /\ api.dispatched = <<1, 1, 1>>

\* C35: in the fetch adapter with a timer and a caller signal armed, once one
\* of the two has fired the handler of the other is gone (and the timer too,
\* when the caller fired), combinedController.abort() is called at most once,
\* and isTimeoutAborted never changes after the first firing.
C35_FirstFiringIsFinal ==
    /\ [](adapter.pc # "off" /\ adapter.finalSignal = "combined"
           => /\ adapter.abortCalls <= 1
              /\ adapter.firstFired = "user"
                   => /\ ~adapter.isTimeoutAborted
                      /\ ~adapter.timerPending
                      /\ "timeoutAbortHandler" \notin adapter.timeoutSignalListeners
              /\ adapter.firstFired = "timer"
                   => /\ adapter.isTimeoutAborted
                      /\ "userAbortHandler" \notin adapter.signalListeners)
    /\ [][(adapter.pc # "off" /\ adapter.finalSignal = "combined"
             /\ adapter.firstFired # "none")
            => /\ adapter'.isTimeoutAborted = adapter.isTimeoutAborted
               /\ adapter'.abortCalls = adapter.abortCalls
               /\ adapter'.firstFired = adapter.firstFired]_vars

\* The timer fired while fetch was pending and the caller aborted after it.
C35_Witness ==
    /\ adapter.pc \in {"fetch", "body"}
    /\ adapter.finalSignal = "combined"
    /\ adapter.firstFired = "timer"
    /\ adapter.signalAborted
    /\ adapter.abortCalls = 1

\* C36: when dispatchRequest has failed in a request of HttpClient during which
\* no collection was changed, the onRejected handler of every response
\* interceptor that has one was called, whether the entry has an onFulfilled
\* handler or not.
C36_EveryOnRejectedInvoked ==
    ( /\ hc.pc = "done"
      /\ hc.operations = 0
      /\ \E k \in CallsOf(hc.log, "dispatch", {"dispatchRequest"}) :
            hc.log[k].out = "throw" )
      => \A i \in DOMAIN hc.interceptors.response :
           ( /\ hc.interceptors.response[i] # NullInterceptor
             /\ hc.interceptors.response[i].onRejected # "none" )
             => \E k \in CallsOf(hc.log, "response", {"onRejected"}) :
                  hc.log[k].id = i - 1

\* C37: a request resumes past the lock wait point only while the client is
\* unlocked: no step takes a request from the await of waitIfLocked into the
\* request interceptors in a state where isLocked is set, and so a waiter that
\* unlock() released does not proceed when lock() was called again before it
\* resumed.
C37_ResumesOnlyUnlocked ==
    [][\A r \in Requests :
         (/\ lk.pc = "on"
          /\ lk.requests[r].pc \in {"resuming", "released"}
          /\ lk'.requests[r].pc = "requestChain")
           => ~lk.isLocked]_vars

\* The attempt in which entry k of the log happened: the number of dispatches
\* up to it.
AttemptOf(a, k) ==
    Cardinality({j \in 1 .. k : a.log[j].ev = "dispatch"})

\* The calls of the onRejected handler of entry `id` in attempt `n`
RejectedCalls(a, id, n) ==
    {k \in DOMAIN a.log :
        a.log[k] = Event("onRejected", id) /\ AttemptOf(a, k) = n}

\* C38: within one attempt of an ApiClient request no onRejected handler of a
\* registered interceptor is invoked more than once, whatever made the attempt
\* fail: no failure path runs the error-interceptor chain twice.
C38_ErrorChainOncePerAttempt ==
    api.pc # "off"
      => \A k \in DOMAIN api.config.responseInterceptors :
           \A n \in 1 .. Dispatches(api) :
              Cardinality(RejectedCalls(api,
                  api.config.responseInterceptors[k].id, n)) <= 1

\* C39: every request queued at the lock wait point is settled exactly once.
\* unlock() leaves no waiter queued: every request that was waiting is
\* released by it, the queue is empty when it returns. A released request
\* resumes, and past the wait point it is never queued or released again. A
\* request that finds the client unlocked does not queue.
NoDuplicates(s) == \A p, q \in DOMAIN s : p # q => s[p] # s[q]

C39_WaitersSettledOnce ==
    /\ \A r \in Requests :
          lk.requests[r].pc = "released" ~> InSeq(lk.passed, r)
    /\ [][(lk.isLocked /\ ~lk'.isLocked)
            => /\ lk'.waitQueue = <<>>
               /\ \A r \in Requests :
                    /\ lk'.requests[r].pc # "waiting"
                    /\ lk.requests[r].pc = "waiting"
                         => lk'.requests[r].pc = "released"]_vars
    /\ [](/\ NoDuplicates(lk.waitQueue \o lk.released \o lk.passed)
          /\ ~lk.isLocked => lk.waitQueue = <<>>)
    /\ [][\A r \in Requests :
            /\ InSeq(lk.passed, r)
                 => lk'.requests[r].pc \notin {"waiting", "released"}
            /\ (lk.requests[r].pc = "new" /\ lk'.requests[r].pc # "new"
                  /\ ~lk.isLocked)
                 => /\ lk'.requests[r].pc = "resuming"
                    /\ lk'.waitQueue = lk.waitQueue
            /\ lk.requests[r].pc = "resuming"
                 => lk'.requests[r].pc \in {"resuming", "requestChain"}]_vars

\* a request that queued while the client was locked has been released by
\* unlock() and has gone on to its attempt
C39_Witness ==
    /\ lk.pc = "on"
    /\ \E r \in Requests :
         /\ lk.requests[r].arrivedLocked
         /\ InSeq(lk.passed, r)
         /\ lk.requests[r].pc = "fetch"

\* 2xx
SuccessStatus(status) == status >= 200 /\ status <= 299

\* C40: the onFulfilled handler of a response interceptor of ApiClient is
\* invoked only in an attempt whose response has a success status; after a
\* response with another status only onRejected handlers run.
C40_OnFulfilledOnlyOnSuccessStatus ==
    api.pc # "off"
      => \A k \in DOMAIN api.log :
            api.log[k].ev = "onFulfilled"
              => LET n == AttemptOf(api, k)
                 IN  /\ n \in DOMAIN api.transport
                     /\ api.transport[n].kind = "response"
                     /\ SuccessStatus(api.transport[n].status)

====
